---------------------------- MODULE Spec2Model ----------------------------
(***************************************************************************)
(* BbCadam: the 2D section/profile path builder of                         *)
(* src/bbcadam/core/profiles.py (classes Section and _SectionProfile), its *)
(* arc resolution and the compilation of op-lists into kernel wires.       *)
(*                                                                         *)
(* Numbers.  The source computes with Python floats.  The model draws      *)
(* every coordinate, offset and radius a caller supplies from the whole    *)
(* numbers, for which the float operations used below are exact or are     *)
(* decided exactly:                                                        *)
(*   - a distance hypot(dx, dy) is carried as its square dx*dx + dy*dy;    *)
(*     the tolerance tests of the source are rewritten as the equivalent   *)
(*     integer inequalities on squares (see IsClose, WithinTol);           *)
(*   - an angle atan2(..) is never evaluated: the differences of angles    *)
(*     that the source normalises and compares are classified exactly by   *)
(*     the signs of a cross and a dot product (see CcwClass);              *)
(*   - a sweep is a whole number of degrees.                               *)
(* The external geometry kernel (Part.makeLine, Part.Arc, Part.Wire) is    *)
(* total here: it returns the edge or wire made of the data it is given.   *)
(*                                                                         *)
(* Python values.  None is the empty tuple; an optional number n is <<n>>; *)
(* a point is <<x, y>>; a list is a sequence.  A method that can raise is  *)
(* an operator returning [p |-> the profile as the call leaves it,         *)
(* err |-> the exception's message, or NoErr].                             *)
(***************************************************************************)
EXTENDS Integers, Sequences, FiniteSets, TLC

None == <<>>
Some(x) == <<x>>

NoErr == ""
Ok(P) == [p |-> P, err |-> NoErr]
Raise(P, e) == [p |-> P, err |-> e]

\* The messages of the exceptions the path builder raises.
ErrToBeforeFrom == "to() called before from_()"
ErrGoBeforeFrom == "go() called before from_()"
ErrArcBeforeFrom == "arc() called before from_()"
ErrDir == "arc dir must be 'ccw' or 'cw'"
ErrNeedCenter == "arc requires center or centerAt"
ErrNeedEndAt == "arc requires end or endAt"
ErrRadiusPositive == "arc radius must be > 0"
ErrEndNotOnCircle == "arc end not on circle defined by center/radius"
ErrCoincide == "arc start and end coincide"
ErrSweepTooSmall == "arc sweep too small (degenerate)"
ErrFullCircle == "full-circle arc not supported via arc()"
ErrNeedRadius == "arc requires radius when center is omitted"
ErrNeedEndOrSweep == "arc requires end or sweep to infer center"
ErrNeedEnd == "arc requires end to infer center"
ErrRadiusTooSmall == "arc radius too small for given end"
ErrDuplicateOuter == "Only one outer profile is supported in section v1"
ErrCircleNeedsR == "circle requires r or d"

-----------------------------------------------------------------------------
(* Bounds of the model. *)

\* Calls a build script makes on one section.
MaxCalls == 4
\* Values of R the arcs-and-lines build script is run with: 1 .. MaxScriptR.
MaxScriptR == 6
\* Arcs drawn on the path of the arc specification.
MaxArcs == 1
\* The largest number of shapes and path calls before a profile is built
MaxShapes == 3

-----------------------------------------------------------------------------
(* Arithmetic on whole numbers standing for the source's floats. *)

Abs(n) == IF n < 0 THEN -n ELSE n
Sign(n) == IF n > 0 THEN 1 ELSE IF n < 0 THEN -1 ELSE 0
Sub(p, q) == <<p[1] - q[1], p[2] - q[2]>>
Add(p, q) == <<p[1] + q[1], p[2] + q[2]>>
Cross(u, w) == u[1] * w[2] - u[2] * w[1]
Dot(u, w) == u[1] * w[1] + u[2] * w[2]
\* math.hypot(dx, dy) squared
HypotSq(v) == v[1] * v[1] + v[2] * v[2]

\* A tolerance t = num/den.  For a whole n >= 0:  n > t*t  iff  n > floor(t*t).
\* A comparison that finds no distance within any tolerance.
NeverWithin(n, t) == FALSE

FloorSq(t) == ((t.num * t.num) \div t.den) \div t.den
\* sqrt(n) <= t
WithinTol(n, t) == n <= FloorSq(t)

\* tol_close = 1e-6 of close()
tol_close == [num |-> 1, den |-> 1000000]
\* tol_abs = tol_rel = 1e-4 of arc()
tol_abs == [num |-> 1, den |-> 10000]
tol_rel == [num |-> 1, den |-> 10000]

-----------------------------------------------------------------------------
(* Path ops and kernel edges.  One record shape serves both: k is "move",  *)
(* "line" or "arc" for an op of a geometry path, "line", "arc" or "circle" *)
(* for a kernel edge.  a is the start point, b the end point.              *)

NoCtr == [k |-> "none", p |-> None, s |-> None, e |-> None, r |-> 0, side |-> 0]
NoRad == [neg |-> FALSE, sq |-> 0]
NoSweep == [sgn |-> 0, cls |-> "none", deg |-> None]
Seg(k, a, b, c, r, dir, sw) ==
    [k |-> k, a |-> a, b |-> b, c |-> c, r |-> r, dir |-> dir, sw |-> sw]

\* ('move', (x, y))
Move(p) == Seg("move", p, p, NoCtr, NoRad, "", NoSweep)
\* ('line', (px, py, nx, ny)), and the edge Part.makeLine(a, b)
Line(a, b) == Seg("line", a, b, NoCtr, NoRad, "", NoSweep)
makeLine(a, b) == Line(a, b)

-----------------------------------------------------------------------------
(* class _SectionProfile *)

\* _SectionProfile.__init__ (the attribute _poly_edges, created on first use
\* in the source, reads as the empty list wherever the source reads it)
NewProfile ==
    [outer_wire |-> None, hole_wires |-> <<>>, cursor |-> None,
     first_point |-> None, building_hole |-> FALSE, geom_outer |-> None,
     geom_holes |-> <<>>, geom_current |-> None, poly_edges |-> <<>>]

_append_segment(P, p0, p1) ==
    [P EXCEPT !.poly_edges = Append(@, makeLine(p0, p1))]

_add_wire(P, wire, hole) ==
    IF hole
    THEN Ok([P EXCEPT !.hole_wires = Append(@, wire)])
    ELSE IF P.outer_wire # None
         THEN Raise(P, ErrDuplicateOuter)
         ELSE Ok([P EXCEPT !.outer_wire = wire])

_add_geom_path(P, path_ops, hole) ==
    IF hole
    THEN [P EXCEPT !.geom_holes = Append(@, path_ops)]
    ELSE IF P.geom_outer = None
         THEN [P EXCEPT !.geom_outer = path_ops]
         ELSE [P EXCEPT !.geom_holes = Append(@, path_ops)]

\* x, y: optional numbers
from_(P, x, y, hole) ==
    LET x1 == IF x # None THEN x[1] ELSE IF P.cursor # None THEN P.cursor[1] ELSE 0
        y1 == IF y # None THEN y[1] ELSE IF P.cursor # None THEN P.cursor[2] ELSE 0
    IN Ok([P EXCEPT !.cursor = <<x1, y1>>,
                    !.first_point = <<x1, y1>>,
                    !.building_hole = hole,
                    !.geom_current = <<Move(<<x1, y1>>)>>])

\* The tail shared by to() and go(): the segment from the cursor to n.
LineTo(P, n) ==
    LET P1 == _append_segment(P, P.cursor, n)
        P2 == IF P1.geom_current # None
              THEN [P1 EXCEPT !.geom_current = Append(@, Line(P.cursor, n))]
              ELSE P1
    IN Ok([P2 EXCEPT !.cursor = n])

\* A to() that needs no path in progress, drawing from the origin.
to_from_origin(P, x, y) ==
    LET c == IF P.cursor = None THEN <<0, 0>> ELSE P.cursor
        nx == IF x # None THEN x[1] ELSE c[1]
        ny == IF y # None THEN y[1] ELSE c[2]
    IN LineTo([P EXCEPT !.cursor = c], <<nx, ny>>)

to(P, x, y) ==
    IF P.cursor = None
    THEN Raise(P, ErrToBeforeFrom)
    ELSE LET nx == IF x # None THEN x[1] ELSE P.cursor[1]
             ny == IF y # None THEN y[1] ELSE P.cursor[2]
         IN LineTo(P, <<nx, ny>>)

\* cos and sin of a whole number of quarter turns, in degrees
CosDeg(a) == CASE a % 360 = 0 -> 1 [] a % 360 = 90 -> 0
               [] a % 360 = 180 -> -1 [] a % 360 = 270 -> 0
SinDeg(a) == CASE a % 360 = 0 -> 0 [] a % 360 = 90 -> 1
               [] a % 360 = 180 -> 0 [] a % 360 = 270 -> -1

\* dx, dy, r, a_deg: optional numbers; a_deg a multiple of 90
go(P, dx, dy, r, a_deg) ==
    IF P.cursor = None
    THEN Raise(P, ErrGoBeforeFrom)
    ELSE LET polar == r # None /\ a_deg # None
             dx1 == IF polar THEN r[1] * CosDeg(a_deg[1])
                    ELSE IF dx # None THEN dx[1] ELSE 0
             dy1 == IF polar THEN r[1] * SinDeg(a_deg[1])
                    ELSE IF dy # None THEN dy[1] ELSE 0
         IN LineTo(P, <<P.cursor[1] + dx1, P.cursor[2] + dy1>>)

\* A close() that draws the closing line whatever the distance.
need_close_always(cursor, first_point) == TRUE

\* need_close of close(): (dx*dx + dy*dy) > tol_close*tol_close
need_close(cursor, first_point) ==
    ~ WithinTol(HypotSq(Sub(cursor, first_point)), tol_close)

\* A close() that insists on a path in progress.
close_strict(P) ==
    IF P.cursor = None \/ P.first_point = None
    THEN Raise(P, "close() called before from_()")
    ELSE Ok([P EXCEPT !.cursor = None, !.first_point = None,
                      !.building_hole = FALSE, !.geom_current = None,
                      !.poly_edges = <<>>])

\* A close() that finalizes nothing and leaves the hole flag as it is.
close_keeps_hole_flag(P) ==
    IF P.cursor = None \/ P.first_point = None
    THEN Ok(P)
    ELSE Ok([P EXCEPT !.cursor = None, !.first_point = None,
                      !.geom_current = None, !.poly_edges = <<>>])

close(P) ==
    IF P.cursor = None \/ P.first_point = None
    THEN Ok(P)
    ELSE LET P1 == IF need_close(P.cursor, P.first_point)
                   THEN LET A == _append_segment(P, P.cursor, P.first_point)
                        IN IF A.geom_current # None
                           THEN [A EXCEPT !.geom_current =
                                            Append(@, Line(P.cursor, P.first_point))]
                           ELSE A
                   ELSE P
             wire == P1.poly_edges
             P2 == [P1 EXCEPT !.poly_edges = <<>>]
             R3 == IF wire # None
                   THEN _add_wire(P2, wire, P2.building_hole)
                   ELSE Ok(P2)
         IN IF R3.err # NoErr
            THEN R3
            ELSE LET current_hole == R3.p.building_hole
                     P4 == [R3.p EXCEPT !.cursor = None,
                                        !.first_point = None,
                                        !.building_hole = FALSE]
                 IN Ok(IF P4.geom_current # None
                       THEN [_add_geom_path(P4, P4.geom_current, current_hole)
                               EXCEPT !.geom_current = None]
                       ELSE P4)

-----------------------------------------------------------------------------
(* Arc geometry. *)

\* float(radius) for a whole radius r, and math.hypot(v): the value is
\* sqrt(sq), negated when neg.
Rad(r) == [neg |-> r < 0, sq |-> r * r]
RadHypot(v) == [neg |-> FALSE, sq |-> HypotSq(v)]
RadPositive(R) == ~ R.neg /\ R.sq > 0

\* A centre: a point the caller gave, or the centre Section.arc infers from
\* the chord s -> e and the radius r: the midpoint of the chord moved by
\* h = sqrt(r*r - (d/2)^2) along the chord's left normal (side = 1, c1 of the
\* source), along its right normal (side = -1, c2), or not at all (side = 0:
\* h = 0, where c1 and c2 are the same point).
Ctr(p) == [k |-> "pt", p |-> p, s |-> None, e |-> None, r |-> 0, side |-> 0]
Inferred(s, e, r, side) ==
    [k |-> "inf", p |-> None, s |-> s, e |-> e, r |-> r, side |-> side]

\* math.hypot(q - C) squared.  An inferred centre is only ever measured
\* against the two ends of its own chord, which lie at distance r from it.
CtrDistSq(C, q) == IF C.k = "pt" THEN HypotSq(Sub(q, C.p)) ELSE C.r * C.r

\* An exact comparison in place of math.isclose.
IsExact(n, m) == n = m

\* math.isclose(sqrt(n), sqrt(m), rel_tol=tol_rel, abs_tol=tol_abs) for whole
\* n, m >= 0:  |a - b| <= max(tol_rel * max(a, b), tol_abs).  With lo >= 1 the
\* larger value is >= 1 and (tol_rel = tol_abs) the relative term is the
\* maximum; sqrt(hi) - sqrt(lo) <= t*sqrt(hi), squared and rearranged, is
\* (hi - lo) * (den - num)^2 <= lo * num * (2*den - num).
IsClose(n, m) ==
    LET hi == IF n > m THEN n ELSE m
        lo == IF n > m THEN m ELSE n
        t == tol_rel
    IN IF lo = 0
       THEN WithinTol(hi, tol_abs)
       ELSE hi - lo <= (lo * t.num * (2 * t.den - t.num))
                          \div ((t.den - t.num) * (t.den - t.num))

\* The class of the counter-clockwise angle norm(a_end) - norm(a_start),
\* taken in [0, 2*pi), from the direction C -> S to the direction C -> E:
\* "zero", "minor" (0 < angle < pi), "half" (pi) or "major".  atan2(0, 0) is
\* 0, the direction of +x.  For the whole coordinates of the model two
\* directions either coincide or differ by far more than the source's
\* angular tolerances (1e-8, 1e-6), so the class decides those tests.
CcwClass(C, S, E) ==
    IF C.k = "pt"
    THEN LET u0 == Sub(S, C.p)
             w0 == Sub(E, C.p)
             u == IF u0 = <<0, 0>> THEN <<1, 0>> ELSE u0
             w == IF w0 = <<0, 0>> THEN <<1, 0>> ELSE w0
         IN IF Cross(u, w) > 0 THEN "minor"
            ELSE IF Cross(u, w) < 0 THEN "major"
            ELSE IF Dot(u, w) > 0 THEN "zero" ELSE "half"
    ELSE IF C.side > 0 THEN "minor"
         ELSE IF C.side < 0 THEN "major" ELSE "half"

\* delta of _SectionProfile.arc when no sweep is given: the ccw angle for
\* 'ccw', its complement taken negative for 'cw', +-pi at a diameter.
DeltaFromDir(C, S, E, dir) ==
    LET c == CcwClass(C, S, E)
    IN IF dir = "ccw"
       THEN [sgn |-> IF c = "zero" THEN 0 ELSE 1, cls |-> c, deg |-> None]
       ELSE [sgn |-> IF c = "zero" THEN 0 ELSE -1,
             cls |-> CASE c = "minor" -> "major" [] c = "major" -> "minor"
                       [] OTHER -> c,
             deg |-> None]

\* A sweep taken modulo the full turn: 360 degrees is no sweep at all.
DeltaFromSweepMod(deg) ==
    [sgn |-> Sign(deg),
     cls |-> CASE deg % 360 = 0 -> "zero"
               [] Abs(deg) < 180 -> "minor"
               [] Abs(deg) = 180 -> "half"
               [] OTHER -> "major",
     deg |-> Some(deg)]

\* delta = math.radians(float(sweep)) for a whole number of degrees
DeltaFromSweep(deg) ==
    [sgn |-> Sign(deg),
     cls |-> CASE deg = 0 -> "zero"
               [] Abs(deg) < 180 -> "minor"
               [] Abs(deg) = 180 -> "half"
               [] Abs(deg) < 360 -> "major"
               [] Abs(deg) = 360 -> "full"
               [] OTHER -> "over",
     deg |-> Some(deg)]

\* ('arc', dict(radius, dir, center, end, sweep_rad, start))
ArcOp(R, dir, C, E, delta, S) == Seg("arc", S, E, C, R, dir, delta)
\* Part.Arc(start_v, mid_v, end_v).toShape(): mid_v is the point of the
\* circle (C, R) at the angle a_start + delta/2.
Arc3(S, C, R, delta, E) == Seg("arc", S, E, C, R, "", delta)

\* radius: a Rad value; end, center: offsets or None; endAt: a point or None;
\* centerAt: a centre or None; sweep: optional degrees
arc(P, radius, dir, end, endAt, center, centerAt, sweep) ==
    IF P.cursor = None THEN Raise(P, ErrArcBeforeFrom)
    ELSE IF dir \notin {"ccw", "cw"} THEN Raise(P, ErrDir)
    ELSE IF centerAt = None /\ center = None THEN Raise(P, ErrNeedCenter)
    ELSE IF endAt = None /\ end = None THEN Raise(P, ErrNeedEndAt)
    ELSE LET S == P.cursor
             C == IF centerAt # None THEN centerAt ELSE Ctr(Add(S, center))
             E == IF endAt # None THEN endAt ELSE Add(S, end)
             R == radius
             ok_s == IsClose(CtrDistSq(C, S), R.sq)
             ok_e == IsClose(CtrDistSq(C, E), R.sq)
             delta == IF sweep = None THEN DeltaFromDir(C, S, E, dir)
                      ELSE DeltaFromSweep(sweep[1])
         IN IF ~ RadPositive(R) THEN Raise(P, ErrRadiusPositive)
            ELSE IF ~ ok_e THEN Raise(P, ErrEndNotOnCircle)
            ELSE IF WithinTol(HypotSq(Sub(E, S)), tol_abs) THEN Raise(P, ErrCoincide)
            ELSE IF delta.cls = "zero" THEN Raise(P, ErrSweepTooSmall)
            ELSE IF delta.cls = "full" THEN Raise(P, ErrFullCircle)
            ELSE LET P1 == [P EXCEPT !.poly_edges = Append(@, Arc3(S, C, R, delta, E)),
                                     !.cursor = E]
                 IN Ok(IF P1.geom_current # None
                       THEN [P1 EXCEPT !.geom_current =
                                         Append(@, ArcOp(R, dir, C, E, delta, S))]
                       ELSE P1)

\* circle(): d, r optional numbers (d even, so that r = d/2 is whole)
circle(P, d, r, at, hole) ==
    IF r = None /\ d = None
    THEN Raise(P, ErrCircleNeedsR)
    ELSE LET r1 == IF r # None THEN r[1] ELSE d[1] \div 2
             edge == Seg("circle", at, at, Ctr(at), Rad(r1), "", NoSweep)
         IN _add_wire(P, <<edge>>, hole \/ P.building_hole)

\* The four or n corner points pts[i] -> pts[i+1] as kernel edges and as ops.
PolyLines(pts) == [i \in 1 .. Len(pts) - 1 |-> Line(pts[i], pts[i + 1])]

\* The tail shared by rectangle() and polygon()
AddClosedShape(P, pts, hole) ==
    LET R1 == _add_wire(P, PolyLines(pts), hole \/ P.building_hole)
    IN IF R1.err # NoErr
       THEN R1
       ELSE Ok(_add_geom_path(R1.p, PolyLines(pts), hole \/ R1.p.building_hole))

\* rectangle(): w, h even, h optional
rectangle(P, w, h, at, hole) ==
    LET h1 == IF h # None THEN h[1] ELSE w
        x0 == at[1] - w \div 2
        y0 == at[2] - h1 \div 2
        pts == << <<x0, y0>>, <<x0 + w, y0>>, <<x0 + w, y0 + h1>>,
                  <<x0, y0 + h1>>, <<x0, y0>> >>
    IN AddClosedShape(P, pts, hole)

\* polygon() for n = 4, whose corners cx + R*cos(2*pi*i/n), cy + R*sin(..)
\* are whole; side is not given; d optional and even
polygon(P, n, side, d, at, hole) ==
    LET R == IF d # None THEN d[1] \div 2 ELSE 1
        pt(i) == <<at[1] + R * CosDeg(90 * i), at[2] + R * SinDeg(90 * i)>>
        pts == [i \in 1 .. n + 1 |-> pt((i - 1) % n)]
    IN AddClosedShape(P, pts, hole)

-----------------------------------------------------------------------------
(* class Section: the public path-authoring calls.  plane is the section's *)
(* working plane; x, y, ... are what the caller passes.                    *)

\* A mapping that keeps the caller's order on every plane.
_map_xy_as_given(plane, x, y) == <<x, y>>

_map_xy(plane, x, y) == IF plane = "YZ" THEN <<y, x>> ELSE <<x, y>>
_map_tuple(plane, p) ==
    IF p = None THEN None
    ELSE IF plane = "YZ" THEN <<p[2], p[1]>> ELSE p

Section_from_(P, plane, x, y, hole) ==
    LET m == _map_xy(plane, x, y) IN from_(P, m[1], m[2], hole)

Section_to(P, plane, x, y) ==
    LET m == _map_xy(plane, x, y) IN to(P, m[1], m[2])

Section_go(P, plane, dx, dy, r, a_deg) ==
    IF plane = "YZ"
    THEN IF r # None /\ a_deg # None
         THEN LET dx0 == r[1] * CosDeg(a_deg[1])
                  dy0 == r[1] * SinDeg(a_deg[1])
              IN go(P, Some(dy0), Some(dx0), None, None)
         ELSE go(P, dy, dx, None, None)
    ELSE go(P, dx, dy, r, a_deg)

\* A _sweep_sign that takes the long way round for the short one.
_sweep_sign_long(C, S, E) ==
    IF CcwClass(C, S, E) \in {"zero", "minor", "half"} THEN -1 ELSE 1

\* _sweep_sign(center) of Section.arc: +1 if delta <= pi else -1
_sweep_sign(C, S, E) ==
    IF CcwClass(C, S, E) \in {"zero", "minor", "half"} THEN 1 ELSE -1

\* v turned the other way about: clockwise for a positive angle.
RotCw(v, deg) ==
    <<v[1] * CosDeg(deg) + v[2] * SinDeg(deg),
      v[2] * CosDeg(deg) - v[1] * SinDeg(deg)>>

\* v turned by a whole number of quarter turns
Rot(v, deg) ==
    <<v[1] * CosDeg(deg) - v[2] * SinDeg(deg),
      v[1] * SinDeg(deg) + v[2] * CosDeg(deg)>>

\* (R*cos(a0), R*sin(a0)) for a0 = atan2(u): u stretched to the length R.
\* Whole when R is |u| or -|u|, or u lies along an axis.
Stretch(u, R) ==
    IF R * R = HypotSq(u) THEN <<Sign(R) * u[1], Sign(R) * u[2]>>
    ELSE <<R * Sign(u[1]), R * Sign(u[2])>>
StretchExact(u, R) ==
    IF R * R = HypotSq(u) THEN TRUE ELSE u[1] = 0 \/ u[2] = 0

\* The end point Section.arc infers from center + sweep:
\* (cx + R*cos(a0 + radians(sweep)), cy + R*sin(..)), R = radius or |S - C|.
EndFromSweep(S, c, radius, sweep) ==
    LET u0 == Sub(S, c)
        u == IF u0 = <<0, 0>> THEN <<1, 0>> ELSE u0
    IN IF radius = None
       THEN Add(c, Rot(u0, sweep))
       ELSE Add(c, Rot(Stretch(u, radius[1]), sweep))
\* The inputs for which that end point is a whole point.
EndFromSweepExact(S, c, radius, sweep) ==
    LET u0 == Sub(S, c)
        u == IF u0 = <<0, 0>> THEN <<1, 0>> ELSE u0
    IN IF sweep % 90 # 0 THEN FALSE
       ELSE IF radius = None THEN TRUE
       ELSE StretchExact(u, radius[1])

\* A Section.arc that draws nothing, and reports no error, when it is given
\* no centre and lacks the radius or the end point to infer one.
Section_arc_skip(P, plane, radius, dir, end, endAt, center, centerAt, sweep) ==
    IF P.cursor = None THEN Raise(P, ErrArcBeforeFrom)
    ELSE IF center = None /\ centerAt = None
              /\ (radius = None \/ (end = None /\ endAt = None))
         THEN Ok(P)
         ELSE Raise(P, ErrNeedCenter)

\* radius, sweep: optional numbers; end, endAt, center, centerAt: points or None
Section_arc(P, plane, radius, dir, end, endAt, center, centerAt, sweep) ==
    LET end_in == IF endAt # None THEN endAt ELSE end
        center_in == IF centerAt # None THEN centerAt ELSE center
        end_m == _map_tuple(plane, end_in)
        center_given == _map_tuple(plane, center_in)
    IN IF P.cursor = None THEN Raise(P, ErrArcBeforeFrom)
       ELSE LET S == P.cursor
                infer == center_given = None
                chordSq == HypotSq(Sub(end_m, S))
            IN IF infer /\ radius = None THEN Raise(P, ErrNeedRadius)
               ELSE IF infer /\ end_m = None /\ sweep = None
                    THEN Raise(P, ErrNeedEndOrSweep)
               ELSE IF infer /\ end_m = None THEN Raise(P, ErrNeedEnd)
               ELSE IF infer /\ chordSq = 0 THEN Raise(P, ErrCoincide)
               \* float(radius) < chord_len / 2.0 - 1e-8
               ELSE IF infer /\ (radius[1] < 0 \/ 4 * radius[1] * radius[1] < chordSq)
                    THEN Raise(P, ErrRadiusTooSmall)
               ELSE LET h0 == 4 * radius[1] * radius[1] = chordSq
                        c1 == Inferred(S, end_m, radius[1], IF h0 THEN 0 ELSE 1)
                        c2 == Inferred(S, end_m, radius[1], IF h0 THEN 0 ELSE -1)
                        want_ccw == IF sweep # None THEN sweep[1] > 0
                                    ELSE dir = "ccw"
                        center_m ==
                            IF ~ infer THEN Ctr(center_given)
                            ELSE IF (_sweep_sign(c1, S, end_m) > 0) = want_ccw
                                 THEN c1 ELSE c2
                        exey == IF end_m = None /\ sweep # None
                                THEN EndFromSweep(S, center_m.p, radius, sweep[1])
                                ELSE end_m
                        rad == IF radius # None THEN Rad(radius[1])
                               ELSE RadHypot(Sub(S, center_m.p))
                    IN arc(P, rad, dir, None, exey, None, center_m, sweep)

Section_close(P) == close(P)

Section_circle(P, plane, d, r, at, hole) ==
    circle(P, d, r, _map_tuple(plane, at), hole)
Section_rectangle(P, plane, w, h, at, hole) ==
    rectangle(P, w, h, _map_tuple(plane, at), hole)
Section_polygon(P, plane, n, side, d, at, hole) ==
    polygon(P, n, side, d, _map_tuple(plane, at), hole)

-----------------------------------------------------------------------------
(* The state: the fields of one Section and of its _SectionProfile; the    *)
(* last call made on the section with its outcome; the number of calls     *)
(* made; and whether a path is open, as the calls define it: from_ has     *)
(* returned and close has not returned since.  script_R is the R of the    *)
(* build script being run, 0 when the calls are not those of a script.     *)
(* built, runner, state and watch are None until a compilation is made,    *)
(* the build runner starts, a build script's feature state is reset, or    *)
(* the file watchers start.                                                *)

VARIABLES outer_wire, hole_wires, cursor, first_point, building_hole,
          geom_outer, geom_holes, geom_current, poly_edges, plane, last,
          calls, open, script_R, built, runner, state, watch

vars == <<outer_wire, hole_wires, cursor, first_point, building_hole,
          geom_outer, geom_holes, geom_current, poly_edges, plane, last,
          calls, open, script_R, built, runner, state, watch>>

\* The profile fields as one record, and back.
Prof ==
    [outer_wire |-> outer_wire, hole_wires |-> hole_wires, cursor |-> cursor,
     first_point |-> first_point, building_hole |-> building_hole,
     geom_outer |-> geom_outer, geom_holes |-> geom_holes,
     geom_current |-> geom_current, poly_edges |-> poly_edges]
ProfNext ==
    [outer_wire |-> outer_wire', hole_wires |-> hole_wires', cursor |-> cursor',
     first_point |-> first_point', building_hole |-> building_hole',
     geom_outer |-> geom_outer', geom_holes |-> geom_holes',
     geom_current |-> geom_current', poly_edges |-> poly_edges']
SetProf(P) ==
    /\ outer_wire' = P.outer_wire
    /\ hole_wires' = P.hole_wires
    /\ cursor' = P.cursor
    /\ first_point' = P.first_point
    /\ building_hole' = P.building_hole
    /\ geom_outer' = P.geom_outer
    /\ geom_holes' = P.geom_holes
    /\ geom_current' = P.geom_current
    /\ poly_edges' = P.poly_edges

\* The arguments of a call, each None (or "" / FALSE) unless passed.
NoArgs ==
    [x |-> None, y |-> None, dx |-> None, dy |-> None, r |-> None,
     a_deg |-> None, radius |-> None, dir |-> "", end |-> None,
     endAt |-> None, center |-> None, centerAt |-> None, sweep |-> None,
     hole |-> FALSE, d |-> None, w |-> None, h |-> None, n |-> None,
     at |-> None]
\* A call as recorded: its name, arguments and outcome (the message raised,
\* or NoErr), and the name of the call before it.
Call(op, args, R) ==
    [op |-> op, args |-> args, res |-> R.err, prev |-> last.op]

\* One call on the section: the profile becomes what the call leaves, and
\* the call and its outcome are recorded.
Do(op, args, R) ==
    /\ calls' = calls + 1
    /\ SetProf(R.p)
    /\ last' = Call(op, args, R)
    /\ open' = IF R.err # NoErr THEN open
               ELSE IF op = "from_" THEN TRUE
               ELSE IF op = "close" THEN FALSE
               ELSE open
    /\ UNCHANGED <<plane, script_R, built, runner, state, watch>>

Planes == {"XY", "XZ", "YZ"}

\* Section(): a new profile on one of the planes, no call made yet.
NewSection ==
    /\ outer_wire = NewProfile.outer_wire
    /\ hole_wires = NewProfile.hole_wires
    /\ cursor = NewProfile.cursor
    /\ first_point = NewProfile.first_point
    /\ building_hole = NewProfile.building_hole
    /\ geom_outer = NewProfile.geom_outer
    /\ geom_holes = NewProfile.geom_holes
    /\ geom_current = NewProfile.geom_current
    /\ poly_edges = NewProfile.poly_edges
    /\ plane \in Planes
    /\ last = [op |-> "new", args |-> NoArgs, res |-> NoErr, prev |-> ""]
    /\ open = FALSE
    /\ calls = 0
    /\ built = None
    /\ runner = None
    /\ state = None
    /\ watch = None

Init == NewSection /\ script_R = 0

-----------------------------------------------------------------------------
(* The calls a build script makes on a section, with the values it passes  *)
(* drawn from small sets.                                                  *)

Opt(S) == {None} \cup {Some(v) : v \in S}

\* Section.from_(x, y, hole)
From(Xs, Ys) ==
    \E x \in Xs, y \in Ys, hole \in BOOLEAN :
        Do("from_", [NoArgs EXCEPT !.x = x, !.y = y, !.hole = hole],
           Section_from_(Prof, plane, x, y, hole))

\* Section.to(x, y)
To(Xs, Ys) ==
    \E x \in Xs, y \in Ys :
        Do("to", [NoArgs EXCEPT !.x = x, !.y = y], Section_to(Prof, plane, x, y))

\* Section.go(dx, dy)
GoBy(Dxs, Dys) ==
    \E dx \in Dxs, dy \in Dys :
        Do("go", [NoArgs EXCEPT !.dx = dx, !.dy = dy],
           Section_go(Prof, plane, dx, dy, None, None))

\* Section.go(r=, a_deg=)
GoPolar(Rs, As) ==
    \E r \in Rs, a \in As :
        Do("go", [NoArgs EXCEPT !.r = Some(r), !.a_deg = Some(a)],
           Section_go(Prof, plane, None, None, Some(r), Some(a)))

\* Section.arc(radius, dir, end, endAt, center, centerAt, sweep), end and
\* center passed in either their relative or their absolute keyword: the
\* inputs for which an inferred end point is whole.
Arc(Radii, Dirs, Ends, Ctrs, Sweeps, Rels) ==
    \E radius \in Radii, dir \in Dirs, e \in Ends, c \in Ctrs, sweep \in Sweeps,
       rel \in Rels :
        LET end == IF rel /\ e # None THEN e[1] ELSE None
            endAt == IF ~ rel /\ e # None THEN e[1] ELSE None
            center == IF rel /\ c # None THEN c[1] ELSE None
            centerAt == IF ~ rel /\ c # None THEN c[1] ELSE None
        IN /\ rel => (e # None \/ c # None)
           /\ IF cursor # None /\ c # None /\ e = None /\ sweep # None
              THEN EndFromSweepExact(cursor, _map_tuple(plane, c[1]), radius,
                                     sweep[1])
              ELSE TRUE
           /\ Do("arc", [NoArgs EXCEPT !.radius = radius, !.dir = dir, !.end = end,
                                       !.endAt = endAt, !.center = center,
                                       !.centerAt = centerAt, !.sweep = sweep],
                 Section_arc(Prof, plane, radius, dir, end, endAt, center, centerAt,
                             sweep))

\* Section.close()
Close ==
    Do("close", NoArgs, Section_close(Prof))

\* Section.circle(d, r, at, hole)
Circle(Ds, Rs, Ats) ==
    \E d \in Ds, r \in Rs, at \in Ats, hole \in BOOLEAN :
        Do("circle", [NoArgs EXCEPT !.d = d, !.r = r, !.at = at, !.hole = hole],
           Section_circle(Prof, plane, d, r, at, hole))

\* Section.rectangle(w, h, at, hole)
Rectangle(Ws, Hs, Ats) ==
    \E w \in Ws, h \in Hs, at \in Ats, hole \in BOOLEAN :
        Do("rectangle", [NoArgs EXCEPT !.w = Some(w), !.h = h, !.at = at, !.hole = hole],
           Section_rectangle(Prof, plane, w, h, at, hole))

\* Section.polygon(n, side, d, at, hole)
Polygon(Ds, Ats) ==
    \E d \in Ds, at \in Ats, hole \in BOOLEAN :
        Do("polygon", [NoArgs EXCEPT !.n = Some(4), !.d = d, !.at = at, !.hole = hole],
           Section_polygon(Prof, plane, 4, None, d, at, hole))

\* The path-builder specification: scripts of at most MaxCalls calls of any
\* kind, with few values.
Room == calls < MaxCalls
Next ==
    \/ Room /\ From({None, Some(2)}, {None})
    \/ Room /\ To({None, Some(2)}, {None, Some(2)})
    \/ Room /\ GoBy({None, Some(2)}, {None})
    \/ Room /\ GoPolar({2}, {90})
    \/ Room /\ Arc({Some(2)}, {"ccw"}, {None, Some(<<2, 2>>)}, {None}, {None},
                   BOOLEAN)
    \/ Room /\ Close
    \/ Room /\ Circle({Some(2)}, {None}, {<<0, 0>>})
    \/ Room /\ Rectangle({2}, {None}, {<<0, 0>>})
    \/ Room /\ Polygon({Some(2)}, {<<0, 0>>})

Spec == Init /\ [][Next]_vars

-----------------------------------------------------------------------------
(* The arc specification: a path is started and at most MaxArcs arcs are   *)
(* drawn on it, with every combination of the keywords of arc(); an arc()  *)
(* that raises ends the script.  The radius 71 with the end points (71, 1) *)
(* and (71, 2) lies on either side of the 1e-4 tolerance:                  *)
(* sqrt(5042) - 71 = 0.00704 <= 0.0071, while sqrt(5045) - 71 = 0.028.     *)

ArcStartXs == {Some(1), Some(2), Some(71)}
ArcStartYs == {Some(0)}
ArcRadii == {None, Some(-2), Some(2), Some(71)}
ArcDirs == {"ccw", "cw", "up"}
ArcEnds ==
    {None} \cup {Some(q) : q \in {<<2, 0>>, <<0, 2>>, <<71, 0>>, <<71, 1>>,
                                  <<71, 2>>}}
ArcCtrs == {None, Some(<<0, 0>>)}
ArcSweeps == {None} \cup {Some(d) : d \in {0, 90, 360, -360}}

NextArc ==
    \/ calls = 0 /\ From(ArcStartXs, ArcStartYs)
    \/ /\ calls >= 1
       /\ calls <= MaxArcs
       /\ last.res = NoErr
       /\ Arc(ArcRadii, ArcDirs, ArcEnds, ArcCtrs, ArcSweeps, BOOLEAN)

SpecArc == Init /\ [][NextArc]_vars

-----------------------------------------------------------------------------
(* The inference specification: a path is started at (2, 0) and at most    *)
(* MaxArcs arcs are drawn on it in the modes of arc() that leave the       *)
(* centre or the end to Section.arc.  With the radius 2 the chord to       *)
(* (0, 2) has its two candidate centres at (0, 0) and (2, 2), and the      *)
(* chord to (-2, 0) is a diameter; with the radius 5 the centres are not   *)
(* whole points.  An arc() that raises ends the script.                    *)

InferStartXs == {Some(2)}
InferStartYs == {Some(0)}
InferRadii == {None, Some(2), Some(5)}
InferDirs == {"ccw", "cw"}
InferEnds == {None, Some(<<0, 2>>), Some(<<-2, 0>>)}
InferCtrs == {None, Some(<<0, 0>>)}
InferSweeps == {None} \cup {Some(d) : d \in {90, -90, 270, -270}}

NextInfer ==
    \/ calls = 0 /\ From(InferStartXs, InferStartYs)
    \/ /\ calls >= 1
       /\ calls <= MaxArcs
       /\ last.res = NoErr
       /\ Arc(InferRadii, InferDirs, InferEnds, InferCtrs, InferSweeps, BOOLEAN)

SpecInfer == Init /\ [][NextInfer]_vars

-----------------------------------------------------------------------------
(* PartProfileAdapter: the compilation of a recorded op-list to a wire.    *)

\* A compilation that makes edges of the lines only.
_wire_from_lines(ops) ==
    LET kept == SelectSeq(ops, LAMBDA o : o.k = "line")
    IN [i \in 1..Len(kept) |-> makeLine(kept[i].a, kept[i].b)]

\* _wire_from_ops(ops): a move makes no edge, a line makes Part.makeLine, an
\* arc makes the three-point Part.Arc of its recorded start, sweep and end;
\* any other op is passed over.
_wire_from_ops(ops) ==
    LET kept == SelectSeq(ops, LAMBDA o : o.k \in {"line", "arc"})
    IN [i \in 1..Len(kept) |->
          IF kept[i].k = "line"
          THEN makeLine(kept[i].a, kept[i].b)
          ELSE Arc3(kept[i].a, kept[i].c, kept[i].r, kept[i].sw, kept[i].b)]

\* The number of edges of one kind in a wire.
CountKind(wire, k) == Cardinality({i \in 1..Len(wire) : wire[i].k = k})

-----------------------------------------------------------------------------
(* The build script of tests/test_sketch_arcs_pad.py, run with the whole   *)
(* values 1 .. MaxScriptR of its R on each plane: a semicircle over the    *)
(* top, two lines, an arc with inferred centre, close.  A call that raises *)
(* ends the script.                                                        *)

InitScript == NewSection /\ script_R \in 1..MaxScriptR

Running(n) == calls = n /\ last.res = NoErr

\* s.from_(R, 0)
ScriptFrom ==
    /\ Running(0)
    /\ Do("from_", [NoArgs EXCEPT !.x = Some(script_R), !.y = Some(0)],
          Section_from_(Prof, plane, Some(script_R), Some(0), FALSE))

\* s.arc(radius=R, dir='ccw', centerAt=(0, 0), endAt=(-R, 0))
ScriptArcCenter ==
    /\ Running(1)
    /\ Do("arc", [NoArgs EXCEPT !.radius = Some(script_R), !.dir = "ccw",
                                !.centerAt = <<0, 0>>,
                                !.endAt = <<-script_R, 0>>],
          Section_arc(Prof, plane, Some(script_R), "ccw", None,
                      <<-script_R, 0>>, None, <<0, 0>>, None))

\* s.to(-R, -R)
ScriptToLeft ==
    /\ Running(2)
    /\ Do("to", [NoArgs EXCEPT !.x = Some(-script_R), !.y = Some(-script_R)],
          Section_to(Prof, plane, Some(-script_R), Some(-script_R)))

\* s.to(R, -R)
ScriptToRight ==
    /\ Running(3)
    /\ Do("to", [NoArgs EXCEPT !.x = Some(script_R), !.y = Some(-script_R)],
          Section_to(Prof, plane, Some(script_R), Some(-script_R)))

\* s.arc(radius=R, endAt=(R, 0), dir='ccw')
ScriptArcInferred ==
    /\ Running(4)
    /\ Do("arc", [NoArgs EXCEPT !.radius = Some(script_R), !.dir = "ccw",
                                !.endAt = <<script_R, 0>>],
          Section_arc(Prof, plane, Some(script_R), "ccw", None,
                      <<script_R, 0>>, None, None, None))

\* s.close()
ScriptClose ==
    /\ Running(5)
    /\ Do("close", NoArgs, Section_close(Prof))

NextScript ==
    \/ ScriptFrom
    \/ ScriptArcCenter
    \/ ScriptToLeft
    \/ ScriptToRight
    \/ ScriptArcInferred
    \/ ScriptClose

SpecScript == InitScript /\ [][NextScript]_vars

-----------------------------------------------------------------------------
(* Properties of the path builder.                                         *)

\* The builder is Idle when no path is open.
Idle == ~ open

\* The code's own mark of an open path is the cursor.
OpenIsCursor == open <=> cursor # None

\* What the profile has stored of finalised paths.
Stored == <<outer_wire, hole_wires, geom_outer, geom_holes>>
HasOuter == outer_wire # None \/ geom_outer # None
Shapes == {"circle", "rectangle", "polygon"}

\* The call being made finalises a non-hole path.
FinalisesNonHole ==
    \/ last'.op = "close" /\ open /\ ~ building_hole
    \/ last'.op \in Shapes /\ ~ last'.args.hole

\* C1: the outer path, once set, is never replaced, and every attempt to
\* finalise a second non-hole path (close() of a path started with
\* hole=false, or a canned shape with hole=false) raises the duplicate-outer
\* error and stores nothing in the profile.
C1_SecondOuterRejected ==
    [][/\ outer_wire # None => outer_wire' = outer_wire
       /\ geom_outer # None => geom_outer' = geom_outer
       /\ (HasOuter /\ FinalisesNonHole)
            => (last'.res = ErrDuplicateOuter /\ Stored' = Stored)]_vars

\* C2: from_ while a path is open is rejected with an error and leaves the
\* path in progress as it was.
C2_FromRequiresIdle ==
    [][(open /\ last'.op = "from_")
         => (last'.res # NoErr /\ ProfNext = Prof)]_vars

\* C3: while the builder is Idle, to(), go() and arc() each raise and append
\* no op (the profile is left as it was); hence one that succeeds was made
\* between a from_ and the next close().
C3_DrawRequiresOpen ==
    [][(Idle /\ last'.op \in {"to", "go", "arc"})
         => (last'.res # NoErr /\ ProfNext = Prof /\ open' = open)]_vars

\* A to(), a go() or an arc() raised on a profile whose path was closed.
C3_Witness ==
    /\ last.op \in {"to", "go", "arc"}
    /\ last.prev = "close"
    /\ last.res \in {ErrToBeforeFrom, ErrGoBeforeFrom, ErrArcBeforeFrom}
    /\ outer_wire # None

\* C4: close() right after a close() that returned, and close() on a profile
\* never opened, does not raise, appends no closing edge and leaves every
\* field of the profile as it was.
C4_CloseIdempotent ==
    [][(last'.op = "close" /\ (Idle \/ (last.op = "close" /\ last.res = NoErr)))
         => (last'.res = NoErr /\ ProfNext = Prof)]_vars

\* A second close() made right after the close() of a drawn path.
C4_Witness ==
    /\ last.op = "close"
    /\ last.prev = "close"
    /\ last.res = NoErr
    /\ outer_wire # None
    /\ geom_outer # None /\ Len(geom_outer) > 1

\* C5: a close() of an open path that returns appends the closing
\* Line(cursor -> path start) exactly when the cursor is farther than 1e-6
\* from the path start (for whole coordinates: is another point), commits
\* the op-list to the outer slot for hole=false and to the hole collection
\* for hole=true, and leaves the builder Idle.
C5_CloseCommits ==
    [][(open /\ last'.op = "close" /\ last'.res = NoErr)
         => LET ops == IF cursor # first_point
                       THEN Append(geom_current, Line(cursor, first_point))
                       ELSE geom_current
            IN /\ IF building_hole
                  THEN geom_holes' = Append(geom_holes, ops)
                       /\ geom_outer' = geom_outer
                  ELSE geom_outer' = ops /\ geom_holes' = geom_holes
               /\ cursor' = None /\ first_point' = None
               /\ geom_current' = None
               /\ ~ open']_vars

\* The build script has run to its end.
ScriptDone == script_R > 0 /\ calls = 6 /\ last.op = "close" /\ last.res = NoErr

\* C6: the path from_(R,0), arc(radius=R, ccw, centerAt=(0,0), endAt=(-R,0)),
\* to(-R,-R), to(R,-R), arc(radius=R, endAt=(R,0), ccw), close() compiles to
\* a boundary of exactly 2 arc segments and 2 line segments (the second arc
\* ends on the path start, so close() adds no line); the wire the builder
\* keeps has the same edges.
C6_TwoArcsTwoLines ==
    ScriptDone =>
        /\ geom_outer # None
        /\ CountKind(_wire_from_ops(geom_outer), "arc") = 2
        /\ CountKind(_wire_from_ops(geom_outer), "line") = 2
        /\ outer_wire = _wire_from_ops(geom_outer)
        /\ geom_holes = <<>> /\ hole_wires = <<>>

\* The script has run to its end with R = 5 on the XY plane.
C6_Witness ==
    ScriptDone /\ script_R = 5 /\ plane = "XY" /\ Len(geom_outer) = 5

\* C6 as stated: exactly 2 arc segments and 3 line segments.
C6_TwoArcsThreeLines ==
    ScriptDone =>
        /\ geom_outer # None
        /\ CountKind(_wire_from_ops(geom_outer), "arc") = 2
        /\ CountKind(_wire_from_ops(geom_outer), "line") = 3

-----------------------------------------------------------------------------
(* Properties of arc().  They are stated of calls that pass the end and    *)
(* the centre by their absolute keywords (endAt, centerAt).                *)

\* The arc() call being made on an open path, and its keywords.
ArcCall == open /\ cursor # None /\ last'.op = "arc"
AbsOnly == last'.args.end = None /\ last'.args.center = None
EndGiven == last'.args.endAt # None
CtrGiven == last'.args.centerAt # None
RadiusGiven == last'.args.radius # None
DirValid == last'.args.dir \in {"ccw", "cw"}
GivenEnd == _map_tuple(plane, last'.args.endAt)
GivenCtr == _map_tuple(plane, last'.args.centerAt)

\* The squares of |S - C|, of |E - C| and of the radius R, which defaults to
\* |S - C|; R > 0.
StartDistSq == HypotSq(Sub(cursor, GivenCtr))
EndDistSq == HypotSq(Sub(GivenEnd, GivenCtr))
RadiusSq ==
    IF RadiusGiven THEN last'.args.radius[1] * last'.args.radius[1]
    ELSE StartDistSq
RadiusPos ==
    IF RadiusGiven THEN last'.args.radius[1] > 0 ELSE StartDistSq > 0

\* |sqrt(n) - sqrt(m)| <= max(1e-4 * max(sqrt(n), sqrt(m)), 1e-4) for whole
\* n, m >= 0: equal when one is 0; otherwise, squared and rearranged,
\* (hi - lo) * 0.9999^2 <= lo * (2e-4 - 1e-8).
NearTol(n, m) ==
    LET hi == IF n > m THEN n ELSE m
        lo == IF n > m THEN m ELSE n
    IN IF lo = 0 THEN hi = 0
       ELSE hi - lo <= (lo * 19999) \div 99980001

\* The direction is valid and the radius, if given, positive.
SoundParams == DirValid /\ (RadiusGiven => last'.args.radius[1] > 0)

\* The call failed and left the profile as it was.
Rejected == last'.res # NoErr /\ ProfNext = Prof

\* The parameters other than the end are consistent: with no centre a radius
\* is given; with a centre the direction is valid, the radius positive and
\* the start on the circle.
C7_OthersConsistent ==
    IF ~ CtrGiven THEN RadiusGiven
    ELSE DirValid /\ RadiusPos /\ NearTol(StartDistSq, RadiusSq)

\* C7: arc() whose end point equals the start point always fails and appends
\* no op; the error is the degenerate-arc one ('start and end coincide')
\* exactly when the other parameters are consistent, and otherwise the error
\* of the first check that fails (radius missing, direction, radius not
\* positive, end not on the circle).
C7_CoincidentEndFails ==
    [][(ArcCall /\ AbsOnly /\ EndGiven /\ GivenEnd = cursor)
         => /\ Rejected
            /\ (last'.res = ErrCoincide) <=> C7_OthersConsistent]_vars

\* An arc whose end is its start was rejected as degenerate, centre, radius
\* and sweep being given.
C7_Witness ==
    /\ last.op = "arc" /\ last.res = ErrCoincide
    /\ last.args.endAt # None /\ _map_tuple(plane, last.args.endAt) = cursor
    /\ last.args.centerAt # None /\ last.args.radius # None
    /\ last.args.sweep # None

\* C7 as stated: whatever the other parameters (radius given or not, centre
\* given or not, sweep given or not), the error is the degenerate-arc one;
\* taken of calls with a valid direction and no radius <= 0.
C7_AlwaysDegenerate ==
    [][(ArcCall /\ AbsOnly /\ SoundParams /\ EndGiven /\ GivenEnd = cursor)
         => (last'.res = ErrCoincide /\ ProfNext = Prof)]_vars

\* The call asks for a sweep of a full turn.
FullTurn == last'.args.sweep \in {Some(360), Some(-360)}

\* C8: arc() asking for a 360 degree sweep always fails and appends no op.
\* With the centre given and the end left to the sweep, the end falls on
\* the start when the radius is |S - C| (given or by default) and the error
\* is the degenerate-arc one ('start and end coincide'); it is the
\* full-circle error when the radius differs from |S - C|, and in the mode
\* radius + end + sweep when the radius reaches across the chord.
C8_FullTurnFails ==
    [][(ArcCall /\ AbsOnly /\ FullTurn)
         => /\ Rejected
            /\ (CtrGiven /\ ~ EndGiven /\ DirValid /\ RadiusPos
                  /\ RadiusSq = StartDistSq)
                 => last'.res = ErrCoincide
            /\ (CtrGiven /\ ~ EndGiven /\ DirValid /\ RadiusPos
                  /\ ~ NearTol(RadiusSq, StartDistSq))
                 => last'.res = ErrFullCircle
            /\ (~ CtrGiven /\ EndGiven /\ GivenEnd # cursor /\ DirValid
                  /\ RadiusGiven /\ RadiusPos
                  /\ 4 * RadiusSq >= HypotSq(Sub(GivenEnd, cursor)))
                 => last'.res = ErrFullCircle]_vars

\* A full turn about a given centre at the radius of the start was rejected
\* as a degenerate arc.
C8_Witness ==
    /\ last.op = "arc" /\ last.res = ErrCoincide
    /\ last.args.sweep = Some(360)
    /\ last.args.centerAt # None /\ last.args.radius # None
    /\ last.args.endAt = None /\ last.args.end = None

\* C8 as stated: in each of the modes center + sweep, center + radius +
\* sweep and radius + end + sweep the error is the full-circle one; taken of
\* calls with a valid direction and no radius <= 0.
C8_AlwaysFullCircle ==
    [][(ArcCall /\ AbsOnly /\ SoundParams /\ FullTurn
          /\ ((CtrGiven /\ ~ EndGiven) \/ (~ CtrGiven /\ RadiusGiven /\ EndGiven)))
         => (last'.res = ErrFullCircle /\ ProfNext = Prof)]_vars

\* C9: arc() with a centre and a radius given is rejected, and appends no
\* op, when the start point does not lie on that circle.
C9_StartOffCircleRejected ==
    [][(ArcCall /\ AbsOnly /\ CtrGiven /\ RadiusGiven
          /\ ~ NearTol(StartDistSq, RadiusSq))
         => Rejected]_vars

\* The arc is recorded: one arc op more, ending at the end given, where the
\* cursor now is.
Recorded ==
    /\ last'.res = NoErr
    /\ Len(geom_current') = Len(geom_current) + 1
    /\ geom_current'[Len(geom_current')].k = "arc"
    /\ geom_current'[Len(geom_current')].b = GivenEnd
    /\ cursor' = GivenEnd

\* C10: of an arc given a centre and an end point: when it fails, nothing is
\* recorded; it is recorded only if the end's distance to the centre is
\* within the 1e-4 tolerance of the radius (|S - C| when omitted); and, the
\* direction being valid and the radius positive, it fails with the
\* end-not-on-circle error exactly when that distance is out of tolerance.
C10_EndOnCircle ==
    [][(ArcCall /\ AbsOnly /\ CtrGiven /\ EndGiven)
         => /\ last'.res # NoErr => ProfNext = Prof
            /\ last'.res = NoErr => (NearTol(EndDistSq, RadiusSq) /\ Recorded)
            /\ (DirValid /\ RadiusPos)
                 => ((last'.res = ErrEndNotOnCircle)
                       <=> ~ NearTol(EndDistSq, RadiusSq))]_vars

\* An arc was recorded whose end is within the tolerance of the radius
\* without being on the circle: |(71, 1) - (0, 0)| = 71.007 for the radius 71.
C10_Witness ==
    /\ last.op = "arc" /\ last.res = NoErr
    /\ last.args.centerAt = <<0, 0>> /\ last.args.endAt = <<71, 1>>
    /\ last.args.radius = Some(71)
    /\ cursor = _map_tuple(plane, <<71, 1>>)

\* C10 as stated: either the end is within tolerance and the arc is
\* recorded, or the call fails with the end-not-on-circle error and records
\* nothing; taken of calls with a valid direction and a positive radius.
C10_RecordedOrInconsistent ==
    [][(ArcCall /\ AbsOnly /\ CtrGiven /\ EndGiven /\ DirValid /\ RadiusPos)
         => \/ NearTol(EndDistSq, RadiusSq) /\ Recorded
            \/ last'.res = ErrEndNotOnCircle /\ ProfNext = Prof]_vars

-----------------------------------------------------------------------------
(* Properties of Section.arc's inference of the centre and of the end.     *)

\* The keywords of the arc() call being made, in either form.
AnyCtr == last'.args.centerAt # None \/ last'.args.center # None
AnyEnd == last'.args.endAt # None \/ last'.args.end # None
SweepGiven == last'.args.sweep # None

Turned(v, deg) ==
    CASE deg % 360 = 0 -> v
      [] deg % 360 = 90 -> <<-v[2], v[1]>>
      [] deg % 360 = 180 -> <<-v[1], -v[2]>>
      [] deg % 360 = 270 -> <<v[2], -v[1]>>

\* The arc op recorded last, if the call recorded one.
LastOp == geom_current'[Len(geom_current')]

\* C12: arc() with a centre and a sweep theta and no end point, the radius
\* omitted or equal to |S - C|, ends at the start S turned about the centre
\* by theta, counter-clockwise for theta > 0: the arc is recorded from S to
\* that point with a sweep of the sign of theta and the cursor moves there;
\* from (R, 0) about the origin +90 degrees ends at (0, R) and -90 degrees at
\* (0, -R).  A sweep of no turn or of whole turns ends on S and is rejected.
C12_EndIsStartTurned ==
    [][(ArcCall /\ AbsOnly /\ CtrGiven /\ ~ EndGiven /\ SweepGiven /\ DirValid
          /\ RadiusPos /\ RadiusSq = StartDistSq)
         => LET theta == last'.args.sweep[1]
                E == Add(GivenCtr, Turned(Sub(cursor, GivenCtr), theta))
            IN IF theta % 360 = 0 THEN Rejected
               ELSE /\ last'.res = NoErr
                    /\ cursor' = E
                    /\ Len(geom_current') = Len(geom_current) + 1
                    /\ LastOp.k = "arc" /\ LastOp.a = cursor /\ LastOp.b = E
                    /\ LastOp.sw.sgn = Sign(theta)
                    /\ (GivenCtr = <<0, 0>> /\ cursor[2] = 0 /\ theta = 90)
                         => cursor' = <<0, cursor[1]>>
                    /\ (GivenCtr = <<0, 0>> /\ cursor[2] = 0 /\ theta = -90)
                         => cursor' = <<0, -cursor[1]>>]_vars

\* From (2, 0) a sweep of -90 degrees about the origin, with no end and no
\* radius given, was drawn and ended at (0, -2).
C12_Witness ==
    /\ plane = "XY" /\ last.op = "arc" /\ last.res = NoErr
    /\ last.args.centerAt = <<0, 0>> /\ last.args.sweep = Some(-90)
    /\ last.args.endAt = None /\ last.args.end = None
    /\ last.args.radius = None
    /\ cursor = <<0, -2>>
    /\ geom_current[Len(geom_current)].a = <<2, 0>>

-----------------------------------------------------------------------------
(* The inferred centre as a point, and the three-point arc of the kernel.  *)

\* c1 and c2 of Section.arc: (mx + side*nx*h, my + side*ny*h) with
\* (nx, ny) = (-vy, vx)/d and h = sqrt(r*r - (d/2)^2).  Where 2h/d is a
\* whole number k, that is 4*r*r - d*d = k*k*d*d, the centre is
\* (s + e + side*k*(-vy, vx)) / 2.
InferredRatio(C) ==
    LET d2 == HypotSq(Sub(C.e, C.s))
    IN {k \in 0..(2 * Abs(C.r)) : k * k * d2 = 4 * C.r * C.r - d2}
InferredTwice(C) ==
    LET v == Sub(C.e, C.s)
        k == CHOOSE k \in InferredRatio(C) : TRUE
    IN <<C.s[1] + C.e[1] - C.side * k * v[2],
         C.s[2] + C.e[2] + C.side * k * v[1]>>
\* The centres that are whole points, and the point.
CtrWhole(C) ==
    IF C.k = "pt" THEN TRUE
    ELSE IF InferredRatio(C) = {} THEN FALSE
    ELSE InferredTwice(C)[1] % 2 = 0 /\ InferredTwice(C)[2] % 2 = 0
CtrPoint(C) ==
    IF C.k = "pt" THEN C.p
    ELSE <<InferredTwice(C)[1] \div 2, InferredTwice(C)[2] \div 2>>

\* norm(a_end) - norm(a_start) taken counter-clockwise, in degrees, where it
\* is a whole number of quarter turns about the point c; None elsewhere.
CcwDeg(c, S, E) ==
    LET u == Sub(S, c)
        w == Sub(E, c)
    IN IF Cross(u, w) = 0 /\ Dot(u, w) > 0 THEN Some(0)
       ELSE IF Dot(u, w) = 0 /\ Cross(u, w) > 0 THEN Some(90)
       ELSE IF Cross(u, w) = 0 /\ Dot(u, w) < 0 THEN Some(180)
       ELSE IF Dot(u, w) = 0 /\ Cross(u, w) < 0 THEN Some(270)
       ELSE None

\* Part.Arc(start_v, mid_v, end_v): the arc from S to E through mid_v, which
\* _SectionProfile.arc puts on the circle at the angle a_start + delta/2.
\* With alpha the counter-clockwise angle from S to E, the arc runs
\* counter-clockwise by alpha when mid_v lies between S and E on that way
\* round (0 < delta/2 < alpha, modulo 360), and clockwise by 360 - alpha when
\* it lies beyond E; mid_v on S or on E gives no arc (0).  The result is the
\* signed angle travelled, in degrees.
Arc3Sweep(alpha, delta) ==
    LET m2 == delta % 720
    IN IF m2 = 0 \/ m2 = 2 * alpha THEN 0
       ELSE IF m2 < 2 * alpha THEN alpha ELSE alpha - 360

-----------------------------------------------------------------------------
(* Properties of the mode radius + end: the centre is inferred.            *)

\* arc(radius, end) with no centre, a valid direction, a chord that is not
\* null and a radius that reaches across it.
InferCall ==
    /\ ArcCall /\ AbsOnly /\ ~ CtrGiven /\ EndGiven /\ RadiusGiven /\ DirValid
    /\ GivenEnd # cursor
    /\ last'.args.radius[1] > 0
    /\ 4 * RadiusSq >= HypotSq(Sub(GivenEnd, cursor))
\* The chord is a diameter of the circle.
Diameter == 4 * RadiusSq = HypotSq(Sub(GivenEnd, cursor))

\* C13: arc(radius, end, dir) with no centre and no sweep succeeds and
\* records an arc from S to E about one of the two candidate centres, fixed
\* by the arguments: c1, left of the chord, for ccw and c2, right of it, for
\* cw (the one midpoint when the chord is a diameter).  The recorded sweep
\* is positive for ccw and negative for cw and is the minor arc, or the half
\* turn on a diameter.  Where the centre is a whole point it is at the
\* distance R from S and from E, and E lies counter-clockwise of S about it
\* for ccw, clockwise for cw.
C13_MinorArcInDirection ==
    [][(InferCall /\ ~ SweepGiven)
         => LET ccw == last'.args.dir = "ccw"
                side == IF Diameter THEN 0 ELSE IF ccw THEN 1 ELSE -1
                c == CtrPoint(LastOp.c)
                u == Sub(cursor, c)
                w == Sub(GivenEnd, c)
            IN /\ last'.res = NoErr
               /\ cursor' = GivenEnd
               /\ Len(geom_current') = Len(geom_current) + 1
               /\ LastOp.k = "arc" /\ LastOp.a = cursor /\ LastOp.b = GivenEnd
               /\ LastOp.c = Inferred(cursor, GivenEnd, last'.args.radius[1], side)
               /\ LastOp.sw.sgn = (IF ccw THEN 1 ELSE -1)
               /\ LastOp.sw.cls = (IF Diameter THEN "half" ELSE "minor")
               /\ IF CtrWhole(LastOp.c)
                  THEN /\ HypotSq(u) = RadiusSq /\ HypotSq(w) = RadiusSq
                       /\ IF Diameter THEN Cross(u, w) = 0 /\ Dot(u, w) < 0
                          ELSE Sign(Cross(u, w)) = LastOp.sw.sgn
                  ELSE TRUE]_vars

\* From (2, 0) the arc of radius 2 to (0, 2) was drawn clockwise, about the
\* candidate centre (2, 2).
C13_Witness ==
    /\ plane = "XY" /\ last.op = "arc" /\ last.res = NoErr
    /\ last.args.dir = "cw" /\ last.args.radius = Some(2)
    /\ last.args.endAt = <<0, 2>> /\ last.args.centerAt = None
    /\ last.args.center = None /\ last.args.sweep = None
    /\ cursor = <<0, 2>>
    /\ CtrWhole(geom_current[Len(geom_current)].c)
    /\ CtrPoint(geom_current[Len(geom_current)].c) = <<2, 2>>

\* C14: arc(radius, end, sweep = theta) with no centre: the centre chosen and
\* the three-point arc emitted go from S to E in the direction of the sign
\* of theta (counter-clockwise for theta > 0), along the minor arc for
\* |theta| < 180 and along the major arc for |theta| > 180.  Stated of the
\* arcs recorded on a chord shorter than the diameter, about a whole centre
\* with S and E a whole number of quarter turns apart.
C14_SweepSelectsArc ==
    [][(InferCall /\ ~ Diameter /\ SweepGiven /\ last'.res = NoErr)
         => IF ~ CtrWhole(LastOp.c) THEN TRUE
            ELSE IF CcwDeg(CtrPoint(LastOp.c), cursor, GivenEnd) = None THEN TRUE
            ELSE LET theta == last'.args.sweep[1]
                     c == CtrPoint(LastOp.c)
                     alpha == CcwDeg(c, cursor, GivenEnd)[1]
                     run == Arc3Sweep(alpha, theta)
                 IN /\ HypotSq(Sub(cursor, c)) = RadiusSq
                    /\ HypotSq(Sub(GivenEnd, c)) = RadiusSq
                    /\ Sign(run) = Sign(theta)
                    /\ Abs(theta) < 180 => Abs(run) < 180
                    /\ Abs(theta) > 180 => Abs(run) > 180]_vars

-----------------------------------------------------------------------------
(* Relative and absolute keywords of Section.arc.                          *)

\* C15: in Section.arc the keywords end= and center= are offsets from the
\* cursor and endAt=, centerAt= are absolute: an arc that is recorded ends,
\* and leaves the cursor, at endAt or at cursor + end, and turns about
\* centerAt or about cursor + center.
C15_RelativeOffsets ==
    [][(ArcCall /\ last'.res = NoErr)
         => LET a == last'.args
            IN /\ IF a.endAt # None
                  THEN cursor' = _map_tuple(plane, a.endAt)
                  ELSE IF a.end # None
                  THEN cursor' = Add(cursor, _map_tuple(plane, a.end))
                  ELSE TRUE
               /\ IF a.centerAt # None
                  THEN LastOp.c = Ctr(_map_tuple(plane, a.centerAt))
                  ELSE IF a.center # None
                  THEN LastOp.c = Ctr(Add(cursor, _map_tuple(plane, a.center)))
                  ELSE TRUE]_vars

-----------------------------------------------------------------------------
(* Properties of the compilation of op-lists.                              *)

\* The op-lists the builder holds: the outer path, the hole paths and the
\* path in progress.
OpLists ==
    (IF geom_outer = None THEN {} ELSE {geom_outer})
      \cup {geom_holes[i] : i \in 1..Len(geom_holes)}
      \cup (IF geom_current = None THEN {} ELSE {geom_current})

\* The positions of the ops of a list that are not moves.
Drawn(ops) == {i \in 1..Len(ops) : ops[i].k # "move"}

\* The wire has one edge for each op that is not a move, in the order of the
\* ops: the edge of the n-th such op is of its kind and joins its end points.
OneEdgePerOp(ops, wire) ==
    /\ Len(wire) = Cardinality(Drawn(ops))
    /\ \A i \in Drawn(ops) :
         LET n == Cardinality({j \in Drawn(ops) : j <= i})
         IN /\ wire[n].k = ops[i].k
            /\ wire[n].a = ops[i].a
            /\ wire[n].b = ops[i].b

\* C17: compiling an op-list of the builder gives one edge for each line or
\* arc op, in op order, and none for a move.
C17_OneEdgePerDrawnOp ==
    \A ops \in OpLists :
        /\ \A i \in Drawn(ops) : ops[i].k \in {"line", "arc"}
        /\ OneEdgePerOp(ops, _wire_from_ops(ops))

\* A closed outer path of a move, a line, an arc and the closing line has
\* been compiled to three edges.
C17_Witness ==
    /\ geom_outer # None
    /\ Len(geom_outer) = 4
    /\ geom_outer[1].k = "move" /\ geom_outer[2].k = "line"
    /\ geom_outer[3].k = "arc" /\ geom_outer[4].k = "line"
    /\ Len(_wire_from_ops(geom_outer)) = 3

-----------------------------------------------------------------------------
(* The compilation of a profile to a face.  built records the compilation  *)
(* made of the section, None before any; fails is the set of positions, in *)
(* the list of holes, at which the kernel raises.                          *)

ErrNeedOuter == "section requires an outer profile"

\* Part.Face(wire), and face.cut(Part.Face(hw)): a face is its outer wire and
\* the hole wires cut from it, in the order of the cuts.
Face(wire) == [outer |-> wire, cuts |-> <<>>]
cut(face, hw) == [face EXCEPT !.cuts = Append(@, hw)]

\* A loop that the first kernel error ends.
CutHolesUntilError(face, holes, fails) ==
    LET after[i \in 0..Len(holes)] ==
            IF i = 0 THEN face
            ELSE IF \E j \in 1..i : j \in fails THEN after[i - 1]
            ELSE cut(after[i - 1], holes[i])
    IN after[Len(holes)]

\* for hw in holes: try: face = face.cut(Part.Face(hw)) / except: pass
CutHoles(face, holes, fails) ==
    LET after[i \in 0..Len(holes)] ==
            IF i = 0 THEN face
            ELSE IF i \in fails THEN after[i - 1]
            ELSE cut(after[i - 1], holes[i])
    IN after[Len(holes)]

\* `if self.p._geom_outer:` a list that is neither None nor empty
Truthy(ops) == IF ops = None THEN FALSE ELSE Len(ops) > 0

\* The holes PartProfileAdapter subtracts from an outer path compiled from
\* its ops: the hole paths compiled from theirs, then the stored hole wires.
GeomHoles(P) ==
    [i \in 1..Len(P.geom_holes) |-> _wire_from_ops(P.geom_holes[i])]
      \o P.hole_wires

PartProfileAdapter_build_face_with_holes(P, fails) ==
    IF Truthy(P.geom_outer)
    THEN [face |-> CutHoles(Face(_wire_from_ops(P.geom_outer)), GeomHoles(P), fails),
          err |-> NoErr]
    ELSE IF P.outer_wire = None
    THEN [face |-> None, err |-> ErrNeedOuter]
    ELSE [face |-> CutHoles(Face(P.outer_wire), P.hole_wires, fails),
          err |-> NoErr]

\* _SectionProfile.build_face_with_holes
build_face_with_holes(P, fails) ==
    IF P.outer_wire # None
    THEN [face |-> CutHoles(Face(P.outer_wire), P.hole_wires, fails),
          err |-> NoErr]
    ELSE PartProfileAdapter_build_face_with_holes(P, fails)

\* The profile and the calls made on it stay as they are.
SectionUnchanged ==
    UNCHANGED <<outer_wire, hole_wires, cursor, first_point, building_hole,
                geom_outer, geom_holes, geom_current, poly_edges, plane, last,
                calls, open, script_R, runner, state, watch>>

\* A compilation to a face, by the profile or by the adapter, the kernel
\* failing on any of the holes.
CompileFace ==
    \E by \in {"profile", "adapter"},
       fails \in SUBSET (1..(Len(geom_holes) + Len(hole_wires))) :
        /\ built' = [op |-> "build_face_with_holes", by |-> by, fails |-> fails,
                     res |-> IF by = "profile"
                             THEN build_face_with_holes(Prof, fails)
                             ELSE PartProfileAdapter_build_face_with_holes(Prof, fails)]
        /\ SectionUnchanged

-----------------------------------------------------------------------------
(* The open-wire view of a profile.                                        *)

ErrNoOpenPath == "No open path geometry available"
ErrNoOpenPathInProfile == "No open path available in section profile"

\* PartProfileAdapter.build_open_wire
PartProfileAdapter_build_open_wire(P) ==
    IF Truthy(P.geom_outer)
    THEN [wire |-> _wire_from_ops(P.geom_outer), err |-> NoErr]
    ELSE IF Truthy(P.geom_current)
    THEN [wire |-> _wire_from_ops(P.geom_current), err |-> NoErr]
    ELSE IF Len(P.poly_edges) > 0
    THEN [wire |-> P.poly_edges, err |-> NoErr]
    ELSE IF P.outer_wire # None /\ Len(P.hole_wires) = 0
    THEN [wire |-> P.outer_wire, err |-> NoErr]
    ELSE [wire |-> None, err |-> ErrNoOpenPath]

\* _SectionProfile.build_open_wire
build_open_wire(P) ==
    IF Len(P.poly_edges) > 0
    THEN [wire |-> P.poly_edges, err |-> NoErr]
    ELSE IF P.outer_wire # None /\ Len(P.hole_wires) = 0
    THEN [wire |-> P.outer_wire, err |-> NoErr]
    ELSE IF Truthy(P.geom_outer)
    THEN PartProfileAdapter_build_open_wire(P)
    ELSE [wire |-> None, err |-> ErrNoOpenPathInProfile]

\* A compilation to an open wire, by the profile or by the adapter.
CompileOpenWire ==
    \E by \in {"profile", "adapter"} :
        /\ built' = [op |-> "build_open_wire", by |-> by,
                     res |-> IF by = "profile" THEN build_open_wire(Prof)
                             ELSE PartProfileAdapter_build_open_wire(Prof)]
        /\ SectionUnchanged

-----------------------------------------------------------------------------
(* The backends: PartSectionBackend builds the solid from the compiled     *)
(* face; SketcherSectionBackend first replays the profile into a sketch of *)
(* the document, which the kernel may refuse (mat_ok, path_ok).            *)

ErrAxis == "axis must be X, Y, or Z"
ErrNoEdge == "list index out of range"
ErrSketch == "Cannot create Sketcher object"

\* Feature(solid), or the error raised
Built(shape) == [feature |-> shape, err |-> NoErr]
Failed(e) == [feature |-> None, err |-> e]

PartSectionBackend_pad(P, pl, dist, dir, fails) ==
    LET F == PartProfileAdapter_build_face_with_holes(P, fails)
    IN IF F.err # NoErr THEN Failed(F.err)
       ELSE Built([kind |-> "extrude", face |-> F.face, plane |-> pl,
                   by |-> IF dir = "+" THEN dist ELSE -dist])

PartSectionBackend_revolve(P, pl, angle_deg, axis, fails) ==
    LET F == PartProfileAdapter_build_face_with_holes(P, fails)
    IN IF F.err # NoErr THEN Failed(F.err)
       ELSE IF axis \notin {"X", "Y", "Z"} THEN Failed(ErrAxis)
       ELSE Built([kind |-> "revolve", face |-> F.face, plane |-> pl,
                   axis |-> axis, by |-> angle_deg])

\* path, path_pl: the profile and the plane of the section swept along
PartSectionBackend_sweep(P, pl, path, path_pl, fails) ==
    LET F == PartProfileAdapter_build_face_with_holes(P, fails)
        W == PartProfileAdapter_build_open_wire(path)
    IN IF F.err # NoErr THEN Failed(F.err)
       ELSE IF W.err # NoErr THEN Failed(W.err)
       ELSE IF Len(W.wire) = 0 THEN Failed(ErrNoEdge)
       ELSE Built([kind |-> "pipe", profile |-> F.face.outer,
                   path |-> W.wire, plane |-> path_pl])

\* SketcherProfileAdapter.build_sketch: the geometry added to the sketch,
\* the outer path (its ops, or else the edges of its wire), then the hole
\* paths, then the edges of the hole wires.
build_sketch(P) ==
    LET ops == IF Truthy(P.geom_outer) THEN P.geom_outer ELSE P.geom_current
        outer == IF Truthy(ops) THEN _wire_from_ops(ops)
                 ELSE IF P.outer_wire # None THEN P.outer_wire ELSE <<>>
        paths[i \in 0..Len(P.geom_holes)] ==
            IF i = 0 THEN <<>>
            ELSE paths[i - 1] \o _wire_from_ops(P.geom_holes[i])
        wires[i \in 0..Len(P.hole_wires)] ==
            IF i = 0 THEN <<>> ELSE wires[i - 1] \o P.hole_wires[i]
    IN outer \o paths[Len(P.geom_holes)] \o wires[Len(P.hole_wires)]

\* _materialize_sketch: the sketch, or None when the kernel refuses it
_materialize_sketch(P, mat_ok) == IF mat_ok THEN build_sketch(P) ELSE None

\* A pad that a failed materialization ends.
SketcherSectionBackend_pad_fatal(P, pl, dist, dir, fails, mat_ok) ==
    [sketch |-> _materialize_sketch(P, mat_ok), path_sketch |-> None,
     res |-> IF mat_ok THEN PartSectionBackend_pad(P, pl, dist, dir, fails)
             ELSE Failed(ErrSketch)]

SketcherSectionBackend_pad(P, pl, dist, dir, fails, mat_ok) ==
    [sketch |-> _materialize_sketch(P, mat_ok), path_sketch |-> None,
     res |-> PartSectionBackend_pad(P, pl, dist, dir, fails)]

SketcherSectionBackend_revolve(P, pl, angle_deg, axis, fails, mat_ok) ==
    [sketch |-> _materialize_sketch(P, mat_ok), path_sketch |-> None,
     res |-> PartSectionBackend_revolve(P, pl, angle_deg, axis, fails)]

SketcherSectionBackend_sweep(P, pl, path, path_pl, fails, mat_ok, path_ok) ==
    [sketch |-> _materialize_sketch(P, mat_ok),
     path_sketch |-> _materialize_sketch(path, path_ok),
     res |-> PartSectionBackend_sweep(P, pl, path, path_pl, fails)]

\* The sections swept along: one with no path, and one with the open path
\* from_(0, 0), to(0, 2).
OpenPath == to(from_(NewProfile, Some(0), Some(0), FALSE).p, Some(0), Some(2)).p
PathProfiles == {NewProfile, OpenPath}

\* What a 3D call leaves: its name, backend and arguments, the kernel's
\* answers, the sketches made and the result.
Made(op, backend, args, fails, mat_ok, path_ok, X) ==
    [op |-> op, backend |-> backend, args |-> args, fails |-> fails,
     mat_ok |-> mat_ok, path_ok |-> path_ok, sketch |-> X.sketch,
     path_sketch |-> X.path_sketch, res |-> X.res]
NoSketch(R) == [sketch |-> None, path_sketch |-> None, res |-> R]
HoleFails == SUBSET (1..(Len(geom_holes) + Len(hole_wires)))

\* Section.pad(dist, dir) of a profile (Part backend) or a sketch
Pad ==
    \E dir \in {"+"}, fails \in HoleFails, mat_ok \in BOOLEAN :
        /\ \/ built' = Made("pad", "part", <<1, dir>>, fails, TRUE, TRUE,
                            NoSketch(PartSectionBackend_pad(Prof, plane, 1, dir, fails)))
           \/ built' = Made("pad", "sketcher", <<1, dir>>, fails, mat_ok, TRUE,
                            SketcherSectionBackend_pad(Prof, plane, 1, dir, fails, mat_ok))
        /\ SectionUnchanged

\* Section.revolve(angle_deg, axis)
Revolve ==
    \E axis \in {"Y", "W"}, fails \in HoleFails, mat_ok \in BOOLEAN :
        /\ \/ built' = Made("revolve", "part", <<360, axis>>, fails, TRUE, TRUE,
                            NoSketch(PartSectionBackend_revolve(Prof, plane, 360, axis, fails)))
           \/ built' = Made("revolve", "sketcher", <<360, axis>>, fails, mat_ok, TRUE,
                            SketcherSectionBackend_revolve(Prof, plane, 360, axis, fails,
                                                           mat_ok))
        /\ SectionUnchanged

\* Section.sweep(path_section)
Sweep ==
    \E path \in PathProfiles, fails \in HoleFails, mat_ok \in BOOLEAN,
       path_ok \in BOOLEAN :
        /\ \/ built' = Made("sweep", "part", <<path, "XY">>, fails, TRUE, TRUE,
                            NoSketch(PartSectionBackend_sweep(Prof, plane, path, "XY", fails)))
           \/ built' = Made("sweep", "sketcher", <<path, "XY">>, fails, mat_ok, path_ok,
                            SketcherSectionBackend_sweep(Prof, plane, path, "XY", fails,
                                                         mat_ok, path_ok))
        /\ SectionUnchanged

\* The build specification: at most MaxShapes shapes and path calls make a
\* profile on the plane XY, which is then compiled or built once.
InitBuild == NewSection /\ plane = "XY" /\ script_R = 0
Drawing == built = None /\ calls < MaxShapes
NextBuild ==
    \/ Drawing /\ Circle({Some(2)}, {None}, {<<0, 0>>})
    \/ Drawing /\ Rectangle({4}, {None}, {<<0, 0>>})
    \/ Drawing /\ From({Some(0)}, {Some(0)})
    \/ Drawing /\ To({Some(2)}, {None})
    \/ Drawing /\ Close
    \/ built = None /\ CompileFace
    \/ built = None /\ CompileOpenWire
    \/ built = None /\ Pad
    \/ built = None /\ Revolve
    \/ built = None /\ Sweep

SpecBuild == InitBuild /\ [][NextBuild]_vars

-----------------------------------------------------------------------------
(* The tracing specification: one path is traced on the plane XY through   *)
(* the corners of a square, closed or not, and the section is then padded. *)

TraceCoords == {None, Some(0), Some(2)}
Tracing == built = None /\ calls >= 1 /\ calls < MaxCalls
NextTrace ==
    \/ built = None /\ calls = 0 /\ From({Some(0)}, {Some(0)})
    \/ Tracing /\ To(TraceCoords, TraceCoords)
    \/ Tracing /\ Close
    \/ built = None /\ calls >= 1 /\ Pad

SpecTrace == InitBuild /\ [][NextTrace]_vars

-----------------------------------------------------------------------------

(* The second-path specification: a circle is drawn first, as the outer    *)
(* path or as a hole, and at most MaxCalls calls then trace paths and      *)
(* shapes on the same section, going on after a call that raised.          *)

Later == calls >= 1 /\ calls <= MaxCalls
NextSecondPath ==
    \/ calls = 0 /\ Circle({Some(2)}, {None}, {<<0, 0>>})
    \/ Later /\ From({Some(0)}, {Some(0)})
    \/ Later /\ To({None, Some(2)}, {None, Some(2)})
    \/ Later /\ Close
    \/ Later /\ Rectangle({2}, {None}, {<<0, 0>>})

SpecSecondPath == Init /\ [][NextSecondPath]_vars

-----------------------------------------------------------------------------

(* The plane specification: on each plane, a section starts with a from_   *)
(* or a shape off the diagonal, and at most MaxArcs path calls follow.     *)

PlaneCoords == {Some(0), Some(2)}
PlaneAts == {<<2, 0>>}
Following == calls >= 1 /\ calls <= MaxArcs
NextPlane ==
    \/ calls = 0 /\ From(PlaneCoords \cup {None}, PlaneCoords)
    \/ calls = 0 /\ Circle({Some(2)}, {None}, PlaneAts)
    \/ calls = 0 /\ Rectangle({2}, {None, Some(4)}, PlaneAts)
    \/ calls = 0 /\ Polygon({Some(2)}, PlaneAts)
    \/ Following /\ To({None, Some(2)}, {None, Some(4)})
    \/ Following /\ GoBy({None, Some(2)}, {None, Some(4)})
    \/ Following /\ GoPolar({2}, {90})
    \/ Following /\ Arc({None, Some(2)}, {"ccw", "cw"}, {None, Some(<<0, 2>>)},
                        {None, Some(<<0, 0>>)}, {None, Some(90), Some(-90)},
                        BOOLEAN)

SpecPlane == Init /\ [][NextPlane]_vars

-----------------------------------------------------------------------------

(* The build runner (cli/_runner_build.py): main() builds the scripts named *)
(* in BB_SCRIPTS one after the other and exits with a status.  runner is    *)
(* None until the runner starts; then it holds the scripts, the number of   *)
(* scripts gone through, the status, the scripts whose document was saved,  *)
(* those reported as failed, and the exit status once main() has exited.    *)

\* The largest number of scripts in one invocation
MaxScripts == 3

\* build_part of five scripts, as the error it raises and whether it leaves
\* a solid: a padded circle; an arc with a radius and a sweep only; two outer
\* circles; to() before from_(); a circle that is never padded.
PaddedCircle ==
    LET c == Section_circle(NewProfile, "XY", Some(2), None, <<0, 0>>, FALSE)
        f == PartSectionBackend_pad(c.p, "XY", 1, "+", {})
    IN [err |-> IF c.err # NoErr THEN c.err ELSE f.err,
        solid |-> c.err = NoErr /\ f.err = NoErr]
BadArc ==
    LET a == Section_from_(NewProfile, "XY", Some(1), Some(0), FALSE)
        b == Section_arc(a.p, "XY", Some(2), "ccw", None, None, None, None, Some(90))
    IN [err |-> IF a.err # NoErr THEN a.err ELSE b.err, solid |-> FALSE]
TwoOuters ==
    LET a == Section_circle(NewProfile, "XY", Some(2), None, <<0, 0>>, FALSE)
        b == Section_circle(a.p, "XY", Some(2), None, <<0, 0>>, FALSE)
    IN [err |-> IF a.err # NoErr THEN a.err ELSE b.err, solid |-> FALSE]
ToBeforeFrom ==
    [err |-> Section_to(NewProfile, "XY", Some(2), Some(0)).err, solid |-> FALSE]
CircleOnly ==
    [err |-> Section_circle(NewProfile, "XY", Some(2), None, <<0, 0>>, FALSE).err,
     solid |-> FALSE]

ScriptNames == {"padded_circle", "bad_arc", "two_outers", "to_before_from",
                "circle_only"}
build_part(name) ==
    CASE name = "padded_circle" -> PaddedCircle
      [] name = "bad_arc" -> BadArc
      [] name = "two_outers" -> TwoOuters
      [] name = "to_before_from" -> ToBeforeFrom
      [] name = "circle_only" -> CircleOnly

\* build_part_script: the exception of fn(ctx) propagates; otherwise the
\* document is saved if _finish_build returned an object.
build_part_script(name) ==
    LET b == build_part(name)
    IN [err |-> b.err, saved |-> b.err = NoErr /\ b.solid]

\* A loop body that reports a failed build and leaves the status as it is.
BuildFailureIgnored(r, out) ==
    [r EXCEPT !.done = @ + 1,
              !.saved = IF out.saved THEN @ \cup {r.done + 1} ELSE @,
              !.failed = IF out.err # NoErr THEN @ \cup {r.done + 1} ELSE @]

\* The body of main()'s loop for the next script, out being what
\* build_part_script did: try: build / except Exception: status = 1, print.
BuildOne(r, out) ==
    [r EXCEPT !.done = @ + 1,
              !.saved = IF out.saved THEN @ \cup {r.done + 1} ELSE @,
              !.status = IF out.err # NoErr THEN 1 ELSE @,
              !.failed = IF out.err # NoErr THEN @ \cup {r.done + 1} ELSE @]

RunnerUnchanged ==
    UNCHANGED <<outer_wire, hole_wires, cursor, first_point, building_hole,
                geom_outer, geom_holes, geom_current, poly_edges, plane, last,
                calls, open, script_R, built, state, watch>>

\* main() up to the loop: no script named exits with 2.
StartRunner ==
    /\ runner = None
    /\ \E n \in 0..MaxScripts : \E scripts \in [1..n -> ScriptNames] :
         runner' = [scripts |-> scripts, done |-> 0, status |-> 0, saved |-> {},
                    failed |-> {}, exit |-> IF n = 0 THEN Some(2) ELSE None]
    /\ RunnerUnchanged

\* One turn of the loop
BuildNextScript ==
    /\ runner # None
    /\ runner.exit = None
    /\ runner.done < Len(runner.scripts)
    /\ runner' = BuildOne(runner, build_part_script(runner.scripts[runner.done + 1]))
    /\ RunnerUnchanged

\* sys.exit(status)
ExitRunner ==
    /\ runner # None
    /\ runner.exit = None
    /\ runner.done = Len(runner.scripts)
    /\ runner' = [runner EXCEPT !.exit = Some(runner.status)]
    /\ RunnerUnchanged

NextRunner ==
    \/ StartRunner
    \/ BuildNextScript
    \/ ExitRunner

SpecRunner == Init /\ [][NextRunner]_vars

-----------------------------------------------------------------------------

(* The feature state of a build script (core/dsl_core.py, _STATE): the     *)
(* base solid and the pending feature.  A shape is the number of the       *)
(* primitive that made it; the base solid is the list of the shapes it was *)
(* made of, each with the operation that applied it.  The state also holds *)
(* the number of primitives made, the add() and cut() calls made, the      *)
(* error raised, and whether the build was finished.                       *)

\* The largest number of primitives, and of add() and cut() calls
MaxFeatures == 3

ErrNoBase == "No base solid yet; start with an additive feature before cut()."

Applied(op, shape) == [op |-> op, shape |-> shape]

_apply_add(S, shape) ==
    IF S.base_shape = None
    THEN [S EXCEPT !.base_shape = Some(<<Applied("base", shape)>>)]
    ELSE [S EXCEPT !.base_shape = Some(Append(@[1], Applied("fuse", shape)))]

_apply_cut(S, shape) ==
    IF S.base_shape = None
    THEN [S EXCEPT !.err = ErrNoBase]
    ELSE [S EXCEPT !.base_shape = Some(Append(@[1], Applied("cut", shape)))]

\* skip_shape: an optional shape
_commit_pending_if_any(S, skip_shape) ==
    LET pf == S.pending_feature
    IN IF pf # None
       THEN [(IF skip_shape # pf THEN _apply_add(S, pf[1]) ELSE S)
               EXCEPT !.pending_feature = None]
       ELSE S

Feature_add(S, shape) ==
    _apply_add(_commit_pending_if_any(S, Some(shape)), shape)

Feature_cut(S, shape) ==
    _apply_cut(_commit_pending_if_any(S, Some(shape)), shape)

\* primitives._apply_pending
_apply_pending(S, feat_shape) ==
    LET S1 == IF S.pending_feature # None
              THEN [_apply_add(S, S.pending_feature[1])
                      EXCEPT !.pending_feature = None]
              ELSE S
    IN [S1 EXCEPT !.pending_feature = Some(feat_shape)]

\* _finish_build, up to the test of the base solid
_finish_build(S) == _commit_pending_if_any(S, None)

FeatureUnchanged ==
    UNCHANGED <<outer_wire, hole_wires, cursor, first_point, building_hole,
                geom_outer, geom_holes, geom_current, poly_edges, plane, last,
                calls, open, script_R, built, runner, watch>>

\* _reset_state(), by which a script's build begins
ResetState ==
    /\ state = None
    /\ state' = [base_shape |-> None, pending_feature |-> None, made |-> 0,
                 called |-> <<>>, err |-> NoErr, finished |-> FALSE]
    /\ FeatureUnchanged

Scripting == state # None /\ state.err = NoErr /\ ~ state.finished

\* box(...) or cylinder(...): a new shape, made pending
Primitive ==
    /\ Scripting
    /\ state.made < MaxFeatures
    /\ state' = [_apply_pending(state, state.made + 1) EXCEPT !.made = @ + 1]
    /\ FeatureUnchanged

\* add() on one of the features made
FeatureAdd ==
    /\ Scripting
    /\ Len(state.called) < MaxFeatures
    /\ \E f \in 1..state.made :
         state' = [Feature_add(state, f)
                     EXCEPT !.called = Append(@, <<f, "add">>)]
    /\ FeatureUnchanged

\* cut() on one of the features made
FeatureCut ==
    /\ Scripting
    /\ Len(state.called) < MaxFeatures
    /\ \E f \in 1..state.made :
         state' = [Feature_cut(state, f)
                     EXCEPT !.called = Append(@, <<f, "cut">>)]
    /\ FeatureUnchanged

\* The end of build_part: _finish_build
FinishBuild ==
    /\ Scripting
    /\ state' = [_finish_build(state) EXCEPT !.finished = TRUE]
    /\ FeatureUnchanged

NextFeature ==
    \/ ResetState
    \/ Primitive
    \/ FeatureAdd
    \/ FeatureCut
    \/ FinishBuild

SpecFeature == Init /\ [][NextFeature]_vars

-----------------------------------------------------------------------------

(* The file watchers of the GUI: GuiSpecWatcher (gui_watcher.py) and       *)
(* _GuiWatcher (watcher.py), each polling the watched directory.  watch    *)
(* holds the directory (fs: the modification time of each file, 0 for a    *)
(* file that does not exist) and, for each watcher, its known_files, its   *)
(* mtimes (0 for no entry), the paths queued for rebuild, the directory as *)
(* it was at the watcher's last scan, and a tick that every scan flips.    *)

\* The latest modification time of a file
MaxMtime == 2

WatchedFiles == {"part.py", "params.yaml"}

\* The files with one of the extensions .py, .yaml, .yml that os.walk finds
Tracked(fs) == {f \in WatchedFiles : fs[f] > 0}

\* _find_controller_script for the one directory: its script, if it exists
_find_controller_script(fs) == IF fs["part.py"] > 0 THEN {"part.py"} ELSE {}

\* GuiSpecWatcher._rescan: known_files, then the mtimes snapshot
GuiSpecWatcher_rescan(W, fs) ==
    [W EXCEPT !.known_files = Tracked(fs),
              !.mtimes = [f \in WatchedFiles |->
                            IF f \in Tracked(fs) THEN fs[f] ELSE @[f]]]

\* GuiSpecWatcher._poll
GuiSpecWatcher_poll(W, fs) ==
    LET W1 == GuiSpecWatcher_rescan(W, fs)
        changed == {p \in W1.known_files :
                      W1.mtimes[p] # 0 /\ fs[p] # W1.mtimes[p]}
    IN [W1 EXCEPT !.mtimes = [f \in WatchedFiles |->
                                IF f \in changed THEN fs[f] ELSE @[f]],
                  !.queued = @ \cup changed]

\* _GuiWatcher._rescan: known_files only
GuiWatcher_rescan(W, fs) == [W EXCEPT !.known_files = Tracked(fs)]

\* _GuiWatcher._attach: _rescan, then the first mtimes snapshot
GuiWatcher_attach(W, fs) ==
    [GuiWatcher_rescan(W, fs) EXCEPT
       !.mtimes = [f \in WatchedFiles |-> IF f \in Tracked(fs) THEN fs[f] ELSE @[f]]]

\* _GuiWatcher._poll
GuiWatcher_poll(W, fs) ==
    LET prev_known == W.known_files
        W1 == GuiWatcher_rescan(W, fs)
        new_files == W1.known_files \ prev_known
        targets == UNION {IF p = "part.py" THEN {p} ELSE _find_controller_script(fs) :
                            p \in new_files}
        changed == {p \in W1.known_files \cap prev_known :
                      W.mtimes[p] # 0 /\ fs[p] # W.mtimes[p]}
    IN [W1 EXCEPT !.mtimes = [f \in WatchedFiles |->
                                IF f \in new_files \cup changed THEN fs[f]
                                ELSE @[f]],
                  !.queued = @ \cup targets \cup changed]

WatchUnchanged ==
    UNCHANGED <<outer_wire, hole_wires, cursor, first_point, building_hole,
                geom_outer, geom_holes, geom_current, poly_edges, plane, last,
                calls, open, script_R, built, runner, state>>

NewWatcher ==
    [known_files |-> {}, mtimes |-> [f \in WatchedFiles |-> 0], queued |-> {},
     at_scan |-> [f \in WatchedFiles |-> 0], tick |-> 0]
Scanned(W, fs) == [W EXCEPT !.at_scan = fs, !.tick = 1 - @]

\* GuiSpecWatcher.__init__ and _GuiWatcher._attach, over a directory that
\* holds some of the files
StartWatchers ==
    /\ watch = None
    /\ \E fs \in [WatchedFiles -> {0, 1}] :
         watch' = [fs |-> fs,
                   gui |-> Scanned(GuiSpecWatcher_rescan(NewWatcher, fs), fs),
                   w |-> Scanned(GuiWatcher_attach(NewWatcher, fs), fs)]
    /\ WatchUnchanged

\* touch: a file's modification time changes, and no event is raised
Touch ==
    /\ watch # None
    /\ \E f \in WatchedFiles :
         /\ watch.fs[f] > 0 /\ watch.fs[f] < MaxMtime
         /\ watch' = [watch EXCEPT !.fs[f] = @ + 1]
    /\ WatchUnchanged

\* A file is created in the watched directory
CreateFile ==
    /\ watch # None
    /\ \E f \in WatchedFiles :
         /\ watch.fs[f] = 0
         /\ watch' = [watch EXCEPT !.fs[f] = 1]
    /\ WatchUnchanged

\* The scan timer of GuiSpecWatcher fires
PollGuiSpecWatcher ==
    /\ watch # None
    /\ watch' = [watch EXCEPT !.gui = Scanned(GuiSpecWatcher_poll(@, watch.fs), watch.fs)]
    /\ WatchUnchanged

\* The scan timer of _GuiWatcher fires
PollGuiWatcher ==
    /\ watch # None
    /\ watch' = [watch EXCEPT !.w = Scanned(GuiWatcher_poll(@, watch.fs), watch.fs)]
    /\ WatchUnchanged

\* A debounce timer fires: _rebuild of a queued path
RebuildQueued ==
    /\ watch # None
    /\ \/ \E p \in watch.gui.queued : watch' = [watch EXCEPT !.gui.queued = @ \ {p}]
       \/ \E p \in watch.w.queued : watch' = [watch EXCEPT !.w.queued = @ \ {p}]
    /\ WatchUnchanged

NextWatch ==
    \/ StartWatchers
    \/ Touch
    \/ CreateFile
    \/ PollGuiSpecWatcher
    \/ PollGuiWatcher
    \/ RebuildQueued

SpecWatch == Init /\ [][NextWatch]_vars

-----------------------------------------------------------------------------

(* Properties of the compilation to a face and of the backends.            *)

\* The compilation being made, and the holes it is to subtract.
FaceCall == built = None /\ built' # None /\ built'.op = "build_face_with_holes"
FromOps == Truthy(geom_outer) /\ (built'.by = "adapter" \/ outer_wire = None)
HolesToCut == IF FromOps THEN GeomHoles(Prof) ELSE hole_wires
Survivors == {i \in 1..Len(HolesToCut) : i \notin built'.fails}

\* C16: when a face is compiled from a profile that has an outer path, then
\* whatever the set of holes on which the kernel raises, the compilation
\* returns a face and no error: the face of the outer path with the other
\* holes cut from it in their order.  Without an outer path the only error is
\* the missing-outer one.  The profile is left as it was.
C16_FailingHolesSkipped ==
    [][FaceCall
         => /\ ProfNext = Prof
            /\ IF outer_wire = None /\ ~ Truthy(geom_outer)
               THEN built'.res.err = ErrNeedOuter
               ELSE /\ built'.res.err = NoErr
                    /\ built'.res.face.outer =
                         (IF FromOps THEN _wire_from_ops(geom_outer) ELSE outer_wire)
                    /\ Len(built'.res.face.cuts) = Cardinality(Survivors)
                    /\ \A i \in Survivors :
                         built'.res.face.cuts[Cardinality({j \in Survivors : j <= i})]
                           = HolesToCut[i]]_vars

\* A face was compiled from an outer shape and two different holes, the
\* kernel raising on the first hole: the face has the second hole cut.
C16_Witness ==
    /\ built # None /\ built.op = "build_face_with_holes"
    /\ outer_wire # None /\ Len(hole_wires) = 2 /\ hole_wires[1] # hole_wires[2]
    /\ built.by = "profile" /\ built.fails = {1}
    /\ built.res.err = NoErr
    /\ built.res.face.cuts = <<hole_wires[2]>>

\* A 3D call being made through the Sketcher backend.
SketcherCall ==
    /\ built = None /\ built' # None
    /\ built'.op \in {"pad", "revolve", "sweep"}
    /\ built'.backend = "sketcher"
\* What the Part backend returns for the same call on the same profile.
PartResult ==
    CASE built'.op = "pad"
           -> PartSectionBackend_pad(Prof, plane, built'.args[1], built'.args[2],
                                     built'.fails)
      [] built'.op = "revolve"
           -> PartSectionBackend_revolve(Prof, plane, built'.args[1], built'.args[2],
                                         built'.fails)
      [] built'.op = "sweep"
           -> PartSectionBackend_sweep(Prof, plane, built'.args[1], built'.args[2],
                                       built'.fails)

\* C18: pad, revolve and sweep through the Sketcher backend, whether the
\* materialization of the sketch (and, for sweep, of the path's sketch)
\* succeeds or fails, never raise the materialization's error, leave the
\* profile and its op-lists as they were, and return what the Part backend
\* returns for the same profile and arguments.
C18_SketcherAsPart ==
    [][SketcherCall
         => /\ built'.res.err # ErrSketch
            /\ ProfNext = Prof
            /\ built'.res = PartResult]_vars

\* A sketch was padded to a solid although its materialization failed.
C18_Witness ==
    /\ built # None /\ built.op = "pad" /\ built.backend = "sketcher"
    /\ ~ built.mat_ok /\ built.sketch = None
    /\ built.res.err = NoErr
    /\ built.res.feature.kind = "extrude"
    /\ Len(built.res.feature.face.cuts) > 0

\* A hole shape being added to the section: circle() or rectangle() with
\* hole = True, returning without error.
AddsHoleShape ==
    /\ built = None /\ calls' = calls + 1
    /\ last'.op \in {"circle", "rectangle", "polygon"}
    /\ last'.args.hole
    /\ last'.res = NoErr

\* C19: the open-wire view ignores holes: adding a hole shape to a section
\* changes neither the wire build_open_wire returns nor whether it succeeds,
\* for the profile's build_open_wire and for the adapter's.
C19_OpenWireIgnoresHoles ==
    [][AddsHoleShape
         => /\ build_open_wire(ProfNext) = build_open_wire(Prof)
            /\ PartProfileAdapter_build_open_wire(ProfNext)
                 = PartProfileAdapter_build_open_wire(Prof)]_vars

-----------------------------------------------------------------------------
(* Properties of the build runner.                                         *)

\* The scripts of the invocation whose build_part raises.
Raising == {i \in 1..Len(runner.scripts) : build_part(runner.scripts[i]).err # NoErr}

\* C20: an input error raised while a script's build_part runs aborts that
\* script's build: no document is saved for it, the runner goes on to the
\* scripts after it, and it exits with a status other than 0.  The scripts
\* that raise nothing are built whatever the others do: at the exit the
\* documents saved are those of the scripts that left a solid.
C20_InputErrorAbortsOneBuild ==
    [][(runner # None /\ runner' # runner)
         => /\ \A name \in {"bad_arc", "two_outers", "to_before_from"} :
                 build_part(name).err
                   \in {ErrNeedEnd, ErrDuplicateOuter, ErrToBeforeFrom}
            /\ (runner'.done = runner.done + 1 /\ runner'.done \in Raising)
                 => /\ runner'.saved = runner.saved
                    /\ runner'.status # 0
                    /\ runner'.exit = None
                    /\ runner'.failed = runner.failed \cup {runner'.done}
            /\ (runner'.exit # None /\ Len(runner.scripts) > 0)
                 => /\ runner'.done = Len(runner.scripts)
                    /\ (runner'.exit[1] # 0) <=> (Raising # {})
                    /\ runner'.saved \cap Raising = {}
                    /\ runner'.saved =
                         {i \in 1..Len(runner.scripts) :
                            runner.scripts[i] = "padded_circle"}]_vars

\* An invocation whose first script drew a bad arc and whose second padded a
\* circle has exited with the status 1, the second script's document saved.
C20_Witness ==
    /\ runner # None
    /\ Len(runner.scripts) >= 2
    /\ runner.scripts[1] = "bad_arc" /\ runner.scripts[2] = "padded_circle"
    /\ runner.exit = Some(1)
    /\ 2 \in runner.saved /\ 1 \notin runner.saved

-----------------------------------------------------------------------------
(* Properties of a 3D call on a path that was not closed.                  *)

\* An outer path in progress that was drawn back to its start point through
\* three different points, no outer path being stored yet.
DrawnBackToStart ==
    /\ cursor # None /\ first_point # None /\ geom_current # None
    /\ ~ building_hole
    /\ outer_wire = None /\ geom_outer = None
    /\ Len(geom_current) >= 4
    /\ cursor = first_point
    /\ Cardinality({geom_current[i].b : i \in 2..Len(geom_current)})
         = Len(geom_current) - 1

\* C21: pad() on a section whose path in progress was drawn back to its
\* start point and never closed builds the solid from that path, with either
\* backend, instead of failing for lack of an outer profile.
C21_PadFinalizesPath ==
    [][(built = None /\ built' # None /\ built'.op = "pad" /\ DrawnBackToStart)
         => /\ built'.res.err = NoErr
            /\ built'.res.feature.face.outer = _wire_from_ops(geom_current)]_vars

-----------------------------------------------------------------------------
(* Properties of the feature state.                                        *)

\* The operations by which a shape went into the base solid, in order.
AppliedBy(f) ==
    IF state.base_shape = None THEN <<>>
    ELSE SelectSeq(state.base_shape[1], LAMBDA a : a.shape = f)
CalledOn(f) == SelectSeq(state.called, LAMBDA c : c[1] = f)

\* C22: when a build is finished without error, add() or cut() having been
\* called at most once on each feature, every shape made by a primitive
\* went into the base solid exactly once: cut from it if cut() was called on
\* it, added to it otherwise.
C22_EachShapeAppliedOnce ==
    (/\ state # None /\ state.finished /\ state.err = NoErr
     /\ \A f \in 1..state.made : Len(CalledOn(f)) <= 1)
      => \A f \in 1..state.made :
           /\ Len(AppliedBy(f)) = 1
           /\ (AppliedBy(f)[1].op = "cut") <=> (CalledOn(f) = << <<f, "cut">> >>)

-----------------------------------------------------------------------------
(* Properties of the op-lists.                                             *)

\* Each Line or Arc op of a list starts where the op before it ended.
Continuous(ops) ==
    \A i \in 2..Len(ops) : ops[i].k # "move" => ops[i].a = ops[i - 1].b
\* The op-lists a profile P holds.
OpListsOf(P) ==
    (IF P.geom_current = None THEN {} ELSE {P.geom_current})
      \cup (IF P.geom_outer = None THEN {} ELSE {P.geom_outer})
      \cup {P.geom_holes[i] : i \in 1..Len(P.geom_holes)}
\* A call that lengthens the op-list in progress.
Appends ==
    /\ geom_current # None /\ geom_current' # None
    /\ last'.op \in {"to", "go", "arc", "close"}
    /\ Len(geom_current') > Len(geom_current)

\* C23: after every call, the op-list in progress and every finalized outer
\* or hole op-list is continuous: each Line or Arc op starts exactly at the
\* end point of the op before it, the Move point for the first.  A call that
\* appends an op leaves the ops already in the list as they were.
C23_PathContinuity ==
    [][/\ \A ops \in OpListsOf(ProfNext) : Continuous(ops)
       /\ Appends => SubSeq(geom_current', 1, Len(geom_current)) = geom_current
      ]_vars

-----------------------------------------------------------------------------
(* Properties of the calls that raise.                                     *)

\* A call being made, and raising.
Raises == calls' = calls + 1 /\ last'.res # NoErr

\* C27: a path-builder call that raises leaves the whole profile (cursor,
\* path start, hole flag, op-list in progress, pending kernel edges, outer
\* path and holes) exactly as it was before the call.
C27_RaiseLeavesProfile ==
    [][Raises => ProfNext = Prof]_vars

-----------------------------------------------------------------------------
(* Properties of the holes in the sketch and in the face.                  *)

\* The edges of a list of wires, one after the other.
EdgesOf(wires) ==
    LET upto[i \in 0..Len(wires)] ==
            IF i = 0 THEN <<>> ELSE upto[i - 1] \o wires[i]
    IN upto[Len(wires)]
\* A section at rest with an outer path: no call raised, no path in
\* progress, and every path stored is stored in the slot it was drawn for.
AtRest ==
    /\ cursor = None /\ geom_current = None /\ poly_edges = <<>>
    /\ outer_wire # None
    /\ Len(outer_wire) > 0
    /\ \A i \in 1..Len(hole_wires) : Len(hole_wires[i]) > 0
    /\ Len(geom_holes) <= Len(hole_wires)
\* The sketch being materialized by a 3D call of the Sketcher backend.
Materializes ==
    /\ SketcherCall
    /\ built'.mat_ok

\* C24: the sketch materialized from a section at rest holds exactly one
\* geometry element for each edge of the outer path and of each hole, in
\* that order: no op is left out and none is replayed twice.
C24_SketchMirrorsProfile ==
    [][(Materializes /\ AtRest)
         => built'.sketch = outer_wire \o EdgesOf(hole_wires)]_vars

\* C30: when the compiler builds the face of a section at rest and the
\* kernel raises on no hole, each hole of the profile is cut from the outer
\* face exactly once, in the order the holes were made.
C30_EachHoleCutOnce ==
    [][(FaceCall /\ built'.by = "adapter" /\ built'.fails = {} /\ AtRest)
         => /\ built'.res.err = NoErr
            /\ built'.res.face.cuts = hole_wires]_vars

-----------------------------------------------------------------------------
(* Properties of the working plane.                                        *)

\* A caller's point as the profile of the section is to store it.
AsStored(p) == IF plane = "YZ" THEN <<p[2], p[1]>> ELSE p
\* Where the caller sees the cursor, and an optional number or its default.
Here == IF cursor = None THEN <<0, 0>> ELSE AsStored(cursor)
Val(o, default) == IF o = None THEN default ELSE o[1]
\* The point a from_ or a to names, coordinates left out staying as they are.
Named == <<Val(last'.args.x, Here[1]), Val(last'.args.y, Here[2])>>
\* The offset a go names.
Offset ==
    IF last'.args.r # None /\ last'.args.a_deg # None
    THEN <<last'.args.r[1] * CosDeg(last'.args.a_deg[1]),
           last'.args.r[1] * SinDeg(last'.args.a_deg[1])>>
    ELSE <<Val(last'.args.dx, 0), Val(last'.args.dy, 0)>>
\* The end and the centre an arc names, in either keyword.
EndIn == IF last'.args.endAt # None THEN last'.args.endAt ELSE last'.args.end
CenterIn ==
    IF last'.args.centerAt # None THEN last'.args.centerAt ELSE last'.args.center
\* The wire a shape call stores.
NewWire ==
    IF Len(hole_wires') > Len(hole_wires) THEN hole_wires'[Len(hole_wires')]
    ELSE outer_wire'

\* C25: every point or offset a caller passes to from_, to, go, arc (end and
\* centre) or a shape (centre) is stored with its two coordinates swapped on
\* the plane YZ and as given on XY and XZ; dir and the sweep, sign included,
\* are stored as given on every plane.
C25_PlaneYZSwaps ==
    [][(calls' = calls + 1 /\ last'.res = NoErr)
         => CASE last'.op = "from_"
                   -> /\ cursor' = AsStored(Named)
                      /\ first_point' = AsStored(Named)
                      /\ geom_current' = <<Move(AsStored(Named))>>
              [] last'.op = "to"
                   -> /\ cursor' = AsStored(Named)
                      /\ LastOp = Line(cursor, AsStored(Named))
              [] last'.op = "go"
                   -> /\ cursor' = Add(cursor, AsStored(Offset))
                      /\ LastOp = Line(cursor, Add(cursor, AsStored(Offset)))
              [] last'.op = "arc"
                   -> /\ EndIn # None => LastOp.b = AsStored(EndIn)
                      /\ EndIn # None => cursor' = AsStored(EndIn)
                      /\ CenterIn # None => LastOp.c = Ctr(AsStored(CenterIn))
                      /\ LastOp.dir = last'.args.dir
                      /\ last'.args.sweep # None
                           => /\ LastOp.sw.deg = last'.args.sweep
                              /\ LastOp.sw.sgn = Sign(last'.args.sweep[1])
              [] last'.op = "circle"
                   -> NewWire[1].c = Ctr(AsStored(last'.args.at))
              [] last'.op \in {"rectangle", "polygon"}
                   -> Add(NewWire[1].a, NewWire[3].a)
                        = Add(AsStored(last'.args.at), AsStored(last'.args.at))
              [] OTHER -> TRUE]_vars

\* On the plane YZ an arc was drawn from the stored point (0, 2), the caller
\* having named the centre (0, 0), the end (0, 2) and the direction 'ccw':
\* the end is stored as (2, 0) and the direction as 'ccw'.
C25_Witness ==
    /\ plane = "YZ"
    /\ last.op = "arc" /\ last.res = NoErr
    /\ last.args.endAt = <<0, 2>> /\ last.args.centerAt = <<0, 0>>
    /\ last.args.dir = "ccw"
    /\ cursor = <<2, 0>>
    /\ geom_current[Len(geom_current)].a = <<0, 2>>
    /\ geom_current[Len(geom_current)].dir = "ccw"

-----------------------------------------------------------------------------
(* Properties of the builder's state.                                      *)

\* C28: in every reachable state the cursor is set if and only if the path
\* start is set, if and only if there is an op-list in progress; and when
\* the builder is idle (no path was opened by a from_ since the last close,
\* or no cursor is set) the hole flag is false.
C28_CursorStartListTogether ==
    /\ (cursor # None) <=> (first_point # None)
    /\ (first_point # None) <=> (geom_current # None)
    /\ cursor = None => ~ building_hole
    /\ Idle => ~ building_hole

\* A hole path was opened, drawn and closed: the builder is idle again, its
\* hole flag false, and the path is among the holes.
C28_Witness ==
    /\ last.op = "close" /\ last.res = NoErr /\ last.prev \in {"to", "go", "arc"}
    /\ cursor = None /\ first_point = None /\ geom_current = None
    /\ ~ building_hole
    /\ Len(hole_wires) = 1 /\ Len(geom_holes) = 1
    /\ outer_wire = None

-----------------------------------------------------------------------------
(* Properties of the two stored forms of a path.                           *)

\* A close() finalizing the path in progress.
Finalizes == cursor # None /\ last'.op = "close" /\ last'.res = NoErr
\* The wire and the op-list that the call stores, None when it stores none.
WireStored ==
    IF outer_wire' # outer_wire THEN Some(outer_wire')
    ELSE IF Len(hole_wires') > Len(hole_wires)
    THEN Some(hole_wires'[Len(hole_wires')])
    ELSE None
OpsStored ==
    IF geom_outer' # geom_outer THEN Some(geom_outer')
    ELSE IF Len(geom_holes') > Len(geom_holes)
    THEN Some(geom_holes'[Len(geom_holes')])
    ELSE None

\* C29: a close() that finalizes a path stores its wire and its op-list
\* together, both as the outer path or both as a hole, and the wire has
\* exactly one edge for each Line or Arc op of the op-list, in the same
\* order.
C29_WireAndOpsAgree ==
    [][Finalizes
         => /\ (outer_wire' # outer_wire) <=> (geom_outer' # geom_outer)
            /\ WireStored # None /\ OpsStored # None
            /\ OneEdgePerOp(OpsStored[1], WireStored[1])]_vars

-----------------------------------------------------------------------------
(* Properties of the file watchers.                                        *)

\* The files a watcher tracks whose modification time is not what it was at
\* the watcher's last scan.
TouchedSinceScan(W) ==
    {f \in W.known_files : W.at_scan[f] > 0 /\ watch.fs[f] # W.at_scan[f]}

\* C26: in both watchers, a scan queues for rebuild every tracked file whose
\* modification time changed since the scan before, although no file event
\* was raised.
C26_TouchQueuedByNextScan ==
    [][(watch # None)
         => /\ watch'.gui.tick # watch.gui.tick
                 => TouchedSinceScan(watch.gui) \subseteq watch'.gui.queued
            /\ watch'.w.tick # watch.w.tick
                 => TouchedSinceScan(watch.w) \subseteq watch'.w.queued]_vars

=============================================================================
